---- MODULE Spec2Model ----
(***************************************************************************)
(* The resolve-conflicts command of bd: detectConflicts,                   *)
(* resolveConflictsMechanical, getNextAvailableID, remapTextReferences and *)
(* applyResolutions, as a state machine over one JSONL file and one        *)
(* issue store.                                                            *)
(*                                                                         *)
(* Text is a sequence of symbols: 0..9 are the decimal digits, P is the    *)
(* namespace prefix with its dash ("bd-") and X is any other byte.  The    *)
(* id "bd-10" is <<P, 1, 0>>.                                              *)
(***************************************************************************)
EXTENDS Integers, Sequences, FiniteSets, TLC

\* ------------------------------------------------------------------ bounds
\* Most hooks in a hook migration plan.
MaxHooks == 2
MaxRemotes == 2
\* Longest file of the free-form input family (any line after any line).
MaxLines == 5
\* Most records on one side of the region of the region-shaped input family.
MaxSide == 2
\* Longest text handed to remapTextReferences in SpecText.
MaxText == 4

\* -------------------------------------------------------------------- text
P == 10
X == 11

\* fmt.Sprintf("%d", n) for n >= 0.
RECURSIVE FormatInt(_)
FormatInt(n) == IF n < 10 THEN <<n>> ELSE FormatInt(n \div 10) \o <<n % 10>>

\* fmt.Sscanf(s, "%d", &num): the leading decimal digits; num stays 0 when
\* there are none.
RECURSIVE ScanDigits(_, _)
ScanDigits(s, acc) ==
    IF s = <<>> \/ Head(s) > 9 THEN acc
    ELSE ScanDigits(Tail(s), acc * 10 + Head(s))

ScanInt(s) == ScanDigits(s, 0)

\* Position of the last dash of s (the prefix symbol carries it), 0 if none.
RECURSIVE LastDash(_, _)
LastDash(s, i) == IF i = 0 THEN 0 ELSE IF s[i] = P THEN i ELSE LastDash(s, i - 1)

\* parts[len(parts)-1] of strings.Split(id, "-").
LastPart(id) == SubSeq(id, LastDash(id, Len(id)) + 1, Len(id))

\* len(strings.Split(id, "-")) >= 2.
HasDash(id) == LastDash(id, Len(id)) > 0

SetMax(S) == CHOOSE m \in S : \A n \in S : n <= m

\* The loop of getNextAvailableID over the store's issues: the largest
\* numeric suffix, 0 when no id has one.
MaxNum(ids) == SetMax({0} \cup {ScanInt(LastPart(id)) : id \in {i \in ids : HasDash(i)}})

\* getNextAvailableID on success: prefix-(maxNum+1).  It reads only the
\* store, which no step of the command changes.
getNextAvailableID(ids) == <<P>> \o FormatInt(MaxNum(ids) + 1)

\* strings.ReplaceAll(s, old, new) for a non-empty old: the non-overlapping
\* occurrences, left to right, in one pass.
MatchAt(s, i, old) ==
    /\ i + Len(old) - 1 <= Len(s)
    /\ SubSeq(s, i, i + Len(old) - 1) = old

RECURSIVE ReplaceFrom(_, _, _, _)
ReplaceFrom(s, i, old, new) ==
    IF i > Len(s) THEN <<>>
    ELSE IF MatchAt(s, i, old) THEN new \o ReplaceFrom(s, i + Len(old), old, new)
    ELSE <<s[i]>> \o ReplaceFrom(s, i + 1, old, new)

ReplaceAll(s, old, new) == ReplaceFrom(s, 1, old, new)

\* The orders in which a range over the map can visit its keys.
RECURSIVE Orders(_)
Orders(keys) ==
    IF keys = {} THEN {<<>>}
    ELSE UNION {{<<k>> \o o : o \in Orders(keys \ {k})} : k \in keys}

\* remapTextReferences with the map visited in the order `order`.
RECURSIVE remapTextReferences(_, _, _)
remapTextReferences(text, remapTable, order) ==
    IF order = <<>> THEN text
    ELSE remapTextReferences(ReplaceAll(text, Head(order), remapTable[Head(order)]),
                             remapTable, Tail(order))

\* ------------------------------------------------------------------- lines
\* The issue ids of the inputs.
Id1 == <<P, 1>>
Id2 == <<P, 2>>
Id9 == <<P, 9>>
Id10 == <<P, 1, 0>>
Id11 == <<P, 1, 1>>

\* types.Issue, the fields the command reads or writes; Dependencies is a
\* sequence of [DependsOnID, Type].
Issue(id, title, description, design, acceptance, notes, deps) ==
    [ID |-> id, Title |-> title, Description |-> description, Design |-> design,
     AcceptanceCriteria |-> acceptance, Notes |-> notes, Dependencies |-> deps]

NoIssue == Issue(<<>>, <<>>, <<>>, <<>>, <<>>, <<>>, <<>>)

\* One line of the file.  kind is what the trimmed line is: "open" begins
\* with <<<<<<<, "div" is exactly =======, "divx" begins with ======= and
\* goes on, "close" begins with >>>>>>>, "blank" is the empty line, "rec"
\* unmarshals into a types.Issue, "junk" is any other text.  raw tells the
\* bytes are those of the input line; a line written by json.Marshal is not
\* raw.
Line(kind, issue, raw) == [kind |-> kind, issue |-> issue, raw |-> raw]

OpenLine == Line("open", NoIssue, TRUE)
DivLine == Line("div", NoIssue, TRUE)
DivXLine == Line("divx", NoIssue, TRUE)
CloseLine == Line("close", NoIssue, TRUE)
BlankLine == Line("blank", NoIssue, TRUE)
JunkLine == Line("junk", NoIssue, TRUE)
RecLine(issue) == Line("rec", issue, TRUE)

\* strings.HasPrefix(trimmed, "<<<<<<<"), "=======", ">>>>>>>".
IsOpen(line) == line.kind = "open"
\* A faulty IsDivider: the line is compared with the marker, trimmed == "=======".
IsDividerExact(line) == line.kind = "div"

IsDivider(line) == line.kind \in {"div", "divx"}
IsClose(line) == line.kind = "close"

\* An unmarshalling that takes any text for an issue.
ParsesAnyText(line) == line.kind \in {"rec", "junk"}

\* json.Unmarshal([]byte(trimmed), &issue) returns no error.
Parses(line) == line.kind = "rec"

\* json.Marshal(issue) as a line of the output.
Marshal(issue) == Line("rec", issue, FALSE)

\* ----------------------------------------------------------- detectConflicts
\* bufio.Scanner's lines of the content: the pieces between newlines, without
\* a final empty piece.
ScannerLines(content) ==
    IF content # <<>> /\ content[Len(content)] = BlankLine
    THEN SubSeq(content, 1, Len(content) - 1)
    ELSE content

ConflictBlock(head, base, lineStart, lineEnd) ==
    [HeadIssues |-> head, BaseIssues |-> base, LineStart |-> lineStart, LineEnd |-> lineEnd]

\* Locals that count the lines from 0.
ScanInitZeroBased ==
    [conflicts |-> <<>>, current |-> <<>>, inConflict |-> FALSE, inHead |-> FALSE,
     lineNum |-> -1]

\* The locals of detectConflicts before the loop; current is <<>> for nil and
\* <<block>> for a pointer to block.
ScanInit ==
    [conflicts |-> <<>>, current |-> <<>>, inConflict |-> FALSE, inHead |-> FALSE,
     lineNum |-> 0]

\* A faulty ScanStep: a close marker seals a region whether or not one is
\* open, an empty one when none is.
ScanStepSealing(st, line) ==
    LET n == st.lineNum + 1
        s == [st EXCEPT !.lineNum = n]
        cur == IF s.current = <<>> THEN ConflictBlock(<<>>, <<>>, n, 0) ELSE s.current[1]
    IN  IF line.kind = "blank" THEN s
        ELSE IF IsOpen(line) THEN
            [s EXCEPT !.inConflict = TRUE, !.inHead = TRUE,
                      !.current = <<ConflictBlock(<<>>, <<>>, n, 0)>>]
        ELSE IF IsDivider(line) THEN
            IF s.inConflict THEN [s EXCEPT !.inHead = FALSE] ELSE s
        ELSE IF IsClose(line) THEN
            [s EXCEPT !.inConflict = FALSE,
                      !.conflicts = Append(@, [cur EXCEPT !.LineEnd = n]),
                      !.current = <<>>]
        ELSE IF s.inConflict /\ Parses(line) THEN
            IF s.inHead
            THEN [s EXCEPT !.current = <<[cur EXCEPT !.HeadIssues = Append(@, line.issue)]>>]
            ELSE [s EXCEPT !.current = <<[cur EXCEPT !.BaseIssues = Append(@, line.issue)]>>]
        ELSE s

\* One iteration of the scanner loop of detectConflicts.
ScanStep(st, line) ==
    LET n == st.lineNum + 1
        s == [st EXCEPT !.lineNum = n]
        cur == s.current[1]
    IN  IF line.kind = "blank" THEN s
        ELSE IF IsOpen(line) THEN
            [s EXCEPT !.inConflict = TRUE, !.inHead = TRUE,
                      !.current = <<ConflictBlock(<<>>, <<>>, n, 0)>>]
        ELSE IF IsDivider(line) THEN
            IF s.inConflict THEN [s EXCEPT !.inHead = FALSE] ELSE s
        ELSE IF IsClose(line) THEN
            IF s.inConflict
            THEN [s EXCEPT !.inConflict = FALSE,
                           !.conflicts = Append(@, [cur EXCEPT !.LineEnd = n]),
                           !.current = <<>>]
            ELSE s
        ELSE IF s.inConflict /\ Parses(line) THEN
            IF s.inHead
            THEN [s EXCEPT !.current = <<[cur EXCEPT !.HeadIssues = Append(@, line.issue)]>>]
            ELSE [s EXCEPT !.current = <<[cur EXCEPT !.BaseIssues = Append(@, line.issue)]>>]
        ELSE s

\* The scanner's locals after the first n lines.
RECURSIVE ScanPrefix(_, _)
ScanPrefix(ls, n) == IF n = 0 THEN ScanInit ELSE ScanStep(ScanPrefix(ls, n - 1), ls[n])

\* detectConflicts on a readable file.
detectConflicts(content) ==
    LET ls == ScannerLines(content) IN ScanPrefix(ls, Len(ls)).conflicts

\* ------------------------------------------------ resolveConflictsMechanical
Keep(id, reason) ==
    [Action |-> "keep", IssueID |-> id, OldID |-> <<>>, NewID |-> <<>>, Reason |-> reason]

Remap(old, new) ==
    [Action |-> "remap", IssueID |-> <<>>, OldID |-> old, NewID |-> new,
     Reason |-> "ID exists in both HEAD and BASE"]

\* The issues of one side of all the blocks, in block order.
RECURSIVE HeadIssuesOf(_)
HeadIssuesOf(cs) == IF cs = <<>> THEN <<>> ELSE Head(cs).HeadIssues \o HeadIssuesOf(Tail(cs))

RECURSIVE BaseIssuesOf(_)
BaseIssuesOf(cs) == IF cs = <<>> THEN <<>> ELSE Head(cs).BaseIssues \o BaseIssuesOf(Tail(cs))

\* A first loop that keeps every HEAD issue and collects no id.
RECURSIVE ResolveHeadUnclaimed(_, _)
ResolveHeadUnclaimed(issues, r) ==
    IF issues = <<>> THEN r
    ELSE ResolveHeadUnclaimed(Tail(issues),
                              [headIDs |-> r.headIDs,
                               resolutions |-> Append(r.resolutions,
                                                      Keep(Head(issues).ID, "HEAD version"))])

\* The first loop: every HEAD issue is kept and its id collected.
RECURSIVE ResolveHead(_, _)
ResolveHead(issues, r) ==
    IF issues = <<>> THEN r
    ELSE ResolveHead(Tail(issues),
                     [headIDs |-> r.headIDs \cup {Head(issues).ID},
                      resolutions |-> Append(r.resolutions, Keep(Head(issues).ID, "HEAD version"))])

\* A faulty ResolveBaseIssue: every BASE issue is given a new id.
ResolveBaseIssueRemapping(issue, r, ids) ==
    LET newID == getNextAvailableID(ids)
    IN  [headIDs |-> r.headIDs \cup {newID},
         resolutions |-> Append(r.resolutions, Remap(issue.ID, newID))]

\* The branch of the second loop for one BASE issue, the store answering.
ResolveBaseIssue(issue, r, ids) ==
    IF issue.ID \in r.headIDs
    THEN LET newID == getNextAvailableID(ids)
         IN  [headIDs |-> r.headIDs \cup {newID},
              resolutions |-> Append(r.resolutions, Remap(issue.ID, newID))]
    ELSE [headIDs |-> r.headIDs \cup {issue.ID},
          resolutions |-> Append(r.resolutions, Keep(issue.ID, "No collision"))]

RECURSIVE ResolveBase(_, _, _)
ResolveBase(issues, r, ids) ==
    IF issues = <<>> THEN r
    ELSE ResolveBase(Tail(issues), ResolveBaseIssue(Head(issues), r, ids), ids)

\* A resolver that goes through the BASE issues before the HEAD issues.
resolveConflictsBaseFirst(cs, ids) ==
    ResolveHead(HeadIssuesOf(cs),
                ResolveBase(BaseIssuesOf(cs), [headIDs |-> {}, resolutions |-> <<>>], ids)).resolutions

\* resolveConflictsMechanical when every getNextAvailableID call succeeds.
resolveConflictsMechanical(cs, ids) ==
    ResolveBase(BaseIssuesOf(cs),
                ResolveHead(HeadIssuesOf(cs), [headIDs |-> {}, resolutions |-> <<>>]),
                ids).resolutions

\* How many times the run calls getNextAvailableID: once for each Remap.
NumCalls(cs, ids) ==
    Cardinality({i \in DOMAIN resolveConflictsMechanical(cs, ids) :
                    resolveConflictsMechanical(cs, ids)[i].Action = "remap"})

\* The second loop up to the k-th getNextAvailableID call, not included.
RECURSIVE ResolveBaseUntil(_, _, _, _)
ResolveBaseUntil(issues, r, ids, k) ==
    IF issues = <<>> THEN r
    ELSE IF Head(issues).ID \in r.headIDs /\ k = 1 THEN r
    ELSE ResolveBaseUntil(Tail(issues), ResolveBaseIssue(Head(issues), r, ids), ids,
                          IF Head(issues).ID \in r.headIDs THEN k - 1 ELSE k)

\* A faulty resolveConflictsFailing: the resolutions made before the failing
\* call are returned with the error.
resolveConflictsPartial(cs, ids, k) ==
    ResolveBaseUntil(BaseIssuesOf(cs),
                     ResolveHead(HeadIssuesOf(cs), [headIDs |-> {}, resolutions |-> <<>>]),
                     ids, k).resolutions

\* What resolveConflictsMechanical returns beside the error when its k-th
\* getNextAvailableID call fails: return nil, fmt.Errorf(...).
resolveConflictsFailing(cs, ids, k) == <<>>

\* Whether the run calls getNextAvailableID at all.
CallsStore(cs, ids) ==
    \E i \in DOMAIN resolveConflictsMechanical(cs, ids) :
        resolveConflictsMechanical(cs, ids)[i].Action = "remap"

\* ---------------------------------------------------------- applyResolutions
NoTable == [k \in {} |-> <<>>]

\* The remap table built from the resolutions: a later entry for the same old
\* id replaces the earlier one.
RECURSIVE BuildRemapTable(_, _)
BuildRemapTable(rs, t) ==
    IF rs = <<>> THEN t
    ELSE BuildRemapTable(Tail(rs),
                         IF Head(rs).Action = "remap"
                         THEN (Head(rs).OldID :> Head(rs).NewID) @@ t
                         ELSE t)

\* A faulty RemapDeps: the new id is assigned to the loop's copy of the edge,
\* and the issue's edges stay as they were.
RemapDepsOnCopy(deps, t) == deps

\* The loop over issue.Dependencies: a target that is a key of the table is
\* replaced by its value.
RECURSIVE RemapDeps(_, _)
RemapDeps(deps, t) ==
    IF deps = <<>> THEN <<>>
    ELSE <<IF Head(deps).DependsOnID \in DOMAIN t
           THEN [Head(deps) EXCEPT !.DependsOnID = t[@]]
           ELSE Head(deps)>> \o RemapDeps(Tail(deps), t)

\* Whether the loop over the dependencies of a line outside a conflict sets
\* modified.
DepsModified(deps, t) == \E i \in DOMAIN deps : deps[i].DependsOnID \in DOMAIN t

\* What one remapTextReferences call can return: the range over the map
\* visits the keys in an order that differs from call to call.
TextResults(txt, t) == {remapTextReferences(txt, t, o) : o \in Orders(DOMAIN t)}

\* The issue with the results d, g, c, n of the four remapTextReferences
\* calls stored in its text fields.
RemapTexts(issue, d, g, c, n) ==
    [issue EXCEPT !.Description = d, !.Design = g, !.AcceptanceCriteria = c, !.Notes = n]

\* The issue of a line inside a conflict, as it is re-serialized.
RewriteInConflict(issue, t, d, g, c, n) ==
    RemapTexts([issue EXCEPT !.ID = IF @ \in DOMAIN t THEN t[@] ELSE @,
                             !.Dependencies = RemapDeps(@, t)],
               d, g, c, n)

\* A rewriting outside the conflicts that also replaces the issue's own id
\* and rewrites its title with the description's result.
RewriteOutsideIdentity(issue, t, d, g, c, n) ==
    RemapTexts([issue EXCEPT !.ID = IF @ \in DOMAIN t THEN t[@] ELSE @,
                             !.Title = IF d # issue.Description THEN d ELSE @,
                             !.Dependencies = RemapDeps(@, t)], d, g, c, n)

\* The issue of a line outside every conflict after the reference rewriting.
RewriteOutside(issue, t, d, g, c, n) ==
    RemapTexts([issue EXCEPT !.Dependencies = RemapDeps(@, t)], d, g, c, n)

\* A faulty OutsideLine: a line that parses is re-serialized whether or not
\* the rewriting changed it.
OutsideLineReserialized(line, t, d, g, c, n) ==
    IF line.kind \in {"blank", "open", "div", "divx", "close"} \/ ~Parses(line) THEN line
    ELSE Marshal(RewriteOutside(line.issue, t, d, g, c, n))

\* What a line outside every conflict becomes in resolved.
OutsideLine(line, t, d, g, c, n) ==
    IF line.kind \in {"blank", "open", "div", "divx", "close"} \/ ~Parses(line) THEN line
    ELSE LET new == RewriteOutside(line.issue, t, d, g, c, n)
             modified == \/ DepsModified(line.issue.Dependencies, t)
                         \/ new.Description # line.issue.Description
                         \/ new.Design # line.issue.Design
                         \/ new.AcceptanceCriteria # line.issue.AcceptanceCriteria
                         \/ new.Notes # line.issue.Notes
         IN  IF modified THEN Marshal(new) ELSE line

\* Locals of a loop that starts inside a conflict.
ApplyInitInside ==
    [inConflict |-> TRUE, conflictLines |-> <<>>, resolved |-> <<>>,
     conflictFrom |-> <<>>, resolvedFrom |-> <<>>]

\* The locals of applyResolutions before the loop.  conflictFrom and
\* resolvedFrom record, for each line of conflictLines and resolved, the
\* number of the input line it was made from.
ApplyInit ==
    [inConflict |-> FALSE, conflictLines |-> <<>>, resolved |-> <<>>,
     conflictFrom |-> <<>>, resolvedFrom |-> <<>>]

\* A faulty ApplyStep: the records of a conflict go to resolved as they are
\* read, ahead of the close marker, and the close marker adds nothing.
ApplyStepUnbuffered(a, line, i, t, d, g, c, n) ==
    IF IsOpen(line) THEN [a EXCEPT !.inConflict = TRUE]
    ELSE IF IsClose(line) THEN [a EXCEPT !.inConflict = FALSE]
    ELSE IF IsDivider(line) THEN a
    ELSE IF a.inConflict THEN
        IF line.kind # "blank" /\ Parses(line)
        THEN [a EXCEPT !.resolved =
                           Append(@, Marshal(RewriteInConflict(line.issue, t, d, g, c, n))),
                       !.resolvedFrom = Append(@, i)]
        ELSE a
    ELSE [a EXCEPT !.resolved = Append(@, OutsideLine(line, t, d, g, c, n)),
                   !.resolvedFrom = Append(@, i)]

\* One iteration of the loop of applyResolutions, on line number i, the four
\* remapTextReferences calls returning d, g, c and n.
ApplyStep(a, line, i, t, d, g, c, n) ==
    IF IsOpen(line) THEN
        [a EXCEPT !.inConflict = TRUE, !.conflictLines = <<>>, !.conflictFrom = <<>>]
    ELSE IF IsClose(line) THEN
        [a EXCEPT !.inConflict = FALSE,
                  !.resolved = @ \o a.conflictLines,
                  !.resolvedFrom = @ \o a.conflictFrom,
                  !.conflictLines = <<>>, !.conflictFrom = <<>>]
    ELSE IF IsDivider(line) THEN a
    ELSE IF a.inConflict THEN
        IF line.kind # "blank" /\ Parses(line)
        THEN [a EXCEPT !.conflictLines =
                           Append(@, Marshal(RewriteInConflict(line.issue, t, d, g, c, n))),
                       !.conflictFrom = Append(@, i)]
        ELSE a
    ELSE [a EXCEPT !.resolved = Append(@, OutsideLine(line, t, d, g, c, n)),
                   !.resolvedFrom = Append(@, i)]

\* strings.Join(resolved, "\n") as the content of the file, which
\* strings.Split cuts at the newlines: no line at all is the empty content,
\* which is one empty line.
JoinLines(ls) == IF ls = <<>> THEN <<BlankLine>> ELSE ls

\* -------------------------------------------------------- migrate hooks
\* hookMigrationMode{} and the mode with the three requested flags.
hookMigrationMode(requestedDryRun, requestedApply, requestedYes) ==
    [RequestedDryRun |-> requestedDryRun, RequestedApply |-> requestedApply,
     RequestedYes |-> requestedYes]

ZeroMode == hookMigrationMode(FALSE, FALSE, FALSE)

\* A faulty validateHookMigrationMode: the --yes case is missing.
validateHookMigrationModeNoYesCase(requestedDryRun, requestedApply, requestedYes) ==
    IF requestedDryRun /\ requestedApply
    THEN [mode |-> ZeroMode, err |-> "cannot use --dry-run and --apply together"]
    ELSE IF ~requestedDryRun /\ ~requestedApply
    THEN [mode |-> ZeroMode, err |-> "must specify exactly one mode: --dry-run or --apply"]
    ELSE [mode |-> hookMigrationMode(requestedDryRun, requestedApply, requestedYes),
          err |-> "nil"]

\* validateHookMigrationMode: the mode and the error, "nil" for no error.
validateHookMigrationMode(requestedDryRun, requestedApply, requestedYes) ==
    IF requestedDryRun /\ requestedApply
    THEN [mode |-> ZeroMode, err |-> "cannot use --dry-run and --apply together"]
    ELSE IF requestedYes /\ ~requestedApply
    THEN [mode |-> ZeroMode, err |-> "--yes requires --apply"]
    ELSE IF ~requestedDryRun /\ ~requestedApply
    THEN [mode |-> ZeroMode, err |-> "must specify exactly one mode: --dry-run or --apply"]
    ELSE [mode |-> hookMigrationMode(requestedDryRun, requestedApply, requestedYes),
          err |-> "nil"]

\* A faulty validateHookMigrationApplyConsent: the terminal is looked at
\* before --json.
validateHookMigrationApplyConsentTerminalFirst(requestedYes, interactive, jsonRequested) ==
    IF requestedYes THEN "nil"
    ELSE IF interactive THEN "nil"
    ELSE IF jsonRequested THEN "--json with --apply requires --yes"
    ELSE "--apply requires confirmation; rerun with --yes in non-interactive mode"

\* validateHookMigrationApplyConsent: the error, "nil" for no error.
validateHookMigrationApplyConsent(requestedYes, interactive, jsonRequested) ==
    IF requestedYes THEN "nil"
    ELSE IF jsonRequested THEN "--json with --apply requires --yes"
    ELSE IF interactive THEN "nil"
    ELSE "--apply requires confirmation; rerun with --yes in non-interactive mode"

\* A path is the hook file's name and the suffixes appended to it:
\* <<"old", "migrated">> is ".old.migrated".
HookPathOf(name) == [hook |-> name, suffix |-> <<>>]
WithSuffix(path, suffix) == [path EXCEPT !.suffix = @ \o <<suffix>>]
NoPath == [hook |-> "", suffix |-> <<>>]

\* doctor.HookMigrationHookPlan, the fields the command reads.
HookPlan(name, state, needsMigration, hasOld, hasBackup, readError, suggestedAction) ==
    [Name |-> name, State |-> state, HookPath |-> HookPathOf(name),
     NeedsMigration |-> needsMigration, HasOldSidecar |-> hasOld,
     HasBackupSidecar |-> hasBackup, ReadError |-> readError,
     SuggestedAction |-> suggestedAction]

\* formatHookMigrationBlockingError: "name (state): detail".
formatHookMigrationBlockingError(hook) ==
    [Name |-> hook.Name, State |-> hook.State,
     Detail |-> IF hook.ReadError # "" THEN hook.ReadError
                ELSE IF hook.SuggestedAction = ""
                THEN "Repair manually, then rerun migration"
                ELSE hook.SuggestedAction]

\* A choice of write source that takes the .backup sidecar when there are
\* both.
chooseHookMigrationWriteSourceBackupFirst(hook) ==
    IF hook.State = "legacy_only"
    THEN [kind |-> "template", path |-> NoPath, err |-> "nil"]
    ELSE IF hook.State \in {"legacy_with_old_sidecar", "missing_with_old_sidecar"}
    THEN [kind |-> "old_sidecar", path |-> WithSuffix(hook.HookPath, "old"), err |-> "nil"]
    ELSE IF hook.State \in {"legacy_with_backup_sidecar", "missing_with_backup_sidecar",
                            "legacy_with_both_sidecars", "missing_with_both_sidecars"}
    THEN [kind |-> "backup_sidecar", path |-> WithSuffix(hook.HookPath, "backup"),
          err |-> "nil"]
    ELSE IF hook.State = "custom_with_sidecars"
    THEN [kind |-> "hook_file", path |-> hook.HookPath, err |-> "nil"]
    ELSE IF hook.NeedsMigration
    THEN [kind |-> "", path |-> NoPath, err |-> "has unsupported migration state"]
    ELSE [kind |-> "", path |-> NoPath, err |-> "does not require migration"]

\* chooseHookMigrationWriteSource: source kind, source path and error.
chooseHookMigrationWriteSource(hook) ==
    IF hook.State = "legacy_only"
    THEN [kind |-> "template", path |-> NoPath, err |-> "nil"]
    ELSE IF hook.State \in {"legacy_with_old_sidecar", "legacy_with_both_sidecars",
                            "missing_with_old_sidecar", "missing_with_both_sidecars"}
    THEN [kind |-> "old_sidecar", path |-> WithSuffix(hook.HookPath, "old"), err |-> "nil"]
    ELSE IF hook.State \in {"legacy_with_backup_sidecar", "missing_with_backup_sidecar"}
    THEN [kind |-> "backup_sidecar", path |-> WithSuffix(hook.HookPath, "backup"),
          err |-> "nil"]
    ELSE IF hook.State = "custom_with_sidecars"
    THEN [kind |-> "hook_file", path |-> hook.HookPath, err |-> "nil"]
    ELSE IF hook.NeedsMigration
    THEN [kind |-> "", path |-> NoPath, err |-> "has unsupported migration state"]
    ELSE [kind |-> "", path |-> NoPath, err |-> "does not require migration"]

hookMigrationWriteOp(hook, src) ==
    [HookName |-> hook.Name, HookPath |-> hook.HookPath, State |-> hook.State,
     SourceKind |-> src.kind, SourcePath |-> src.path]

hookMigrationRetireOp(hook, suffix) ==
    [HookName |-> hook.Name, SourcePath |-> WithSuffix(hook.HookPath, suffix),
     DestinationPath |-> WithSuffix(WithSuffix(hook.HookPath, suffix), "migrated")]

EmptyExecPlan == [WriteOps |-> <<>>, RetireOps |-> <<>>, NoopHooks |-> <<>>, BlockingErrors |-> <<>>]

\* One iteration of the loop of buildHookMigrationExecutionPlan.
\* A loop body that lists a hook with a broken marker as left alone and as
\* blocking, and retires the sidecars of a hook that has no write source.
PlanHookLoose(execPlan, hook) ==
    IF hook.State \in {"marker_managed", "unmanaged_custom", "missing_no_artifacts"}
    THEN [execPlan EXCEPT !.NoopHooks = Append(@, hook.Name)]
    ELSE IF hook.State \in {"marker_broken", "read_error"}
    THEN [execPlan EXCEPT !.NoopHooks = Append(@, hook.Name),
                          !.BlockingErrors = Append(@, formatHookMigrationBlockingError(hook))]
    ELSE LET src == chooseHookMigrationWriteSource(hook)
         IN  [execPlan EXCEPT
                  !.BlockingErrors =
                      IF src.err # "nil"
                      THEN Append(@, [Name |-> hook.Name, State |-> hook.State,
                                      Detail |-> src.err])
                      ELSE @,
                  !.WriteOps = IF src.err = "nil"
                               THEN Append(@, hookMigrationWriteOp(hook, src)) ELSE @,
                  !.RetireOps =
                      @ \o (IF hook.HasOldSidecar
                            THEN <<hookMigrationRetireOp(hook, "old")>> ELSE <<>>)
                        \o (IF hook.HasBackupSidecar
                            THEN <<hookMigrationRetireOp(hook, "backup")>> ELSE <<>>)]

PlanHook(execPlan, hook) ==
    IF hook.State \in {"marker_managed", "unmanaged_custom", "missing_no_artifacts"}
    THEN [execPlan EXCEPT !.NoopHooks = Append(@, hook.Name)]
    ELSE IF hook.State \in {"marker_broken", "read_error"}
    THEN [execPlan EXCEPT !.BlockingErrors = Append(@, formatHookMigrationBlockingError(hook))]
    ELSE LET src == chooseHookMigrationWriteSource(hook)
         IN  IF src.err # "nil"
             THEN [execPlan EXCEPT !.BlockingErrors =
                                       Append(@, [Name |-> hook.Name, State |-> hook.State,
                                                  Detail |-> src.err])]
             ELSE [execPlan EXCEPT
                      !.WriteOps = Append(@, hookMigrationWriteOp(hook, src)),
                      !.RetireOps =
                          @ \o (IF hook.HasOldSidecar
                                THEN <<hookMigrationRetireOp(hook, "old")>> ELSE <<>>)
                            \o (IF hook.HasBackupSidecar
                                THEN <<hookMigrationRetireOp(hook, "backup")>> ELSE <<>>)]

RECURSIVE buildHookMigrationExecutionPlan(_)
buildHookMigrationExecutionPlan(hooks) ==
    IF hooks = <<>> THEN EmptyExecPlan
    ELSE PlanHook(buildHookMigrationExecutionPlan(SubSeq(hooks, 1, Len(hooks) - 1)),
                  hooks[Len(hooks)])

operationCount(execPlan) == Len(execPlan.WriteOps) + Len(execPlan.RetireOps)

\* What is at a path: no file, or a file with a body and, once a hook was
\* rendered, the marker section of that hook.
NoFile == [exists |-> FALSE, body |-> "", section |-> ""]
FileOf(body) == [exists |-> TRUE, body |-> body, section |-> ""]

\* pathExists when os.Stat answers.
pathExists(fs, path) == fs[path].exists

\* filesEqual when both files can be read.
filesEqual(fs, pathA, pathB) == fs[pathA] = fs[pathB]

\* renderMigratedHookContent: the content and the error.  The body is empty
\* for the template and the content of the source file otherwise; reading a
\* source that does not exist fails.
renderMigratedHookContent(fs, op) ==
    IF op.SourceKind = "template"
    THEN [content |-> [exists |-> TRUE, body |-> "", section |-> op.HookName], err |-> "nil"]
    ELSE IF op.SourceKind \in {"hook_file", "old_sidecar", "backup_sidecar"}
    THEN IF ~fs[op.SourcePath].exists
         THEN [content |-> NoFile, err |-> "reading source content"]
         ELSE [content |-> [exists |-> TRUE, body |-> fs[op.SourcePath].body,
                            section |-> op.HookName],
               err |-> "nil"]
    ELSE [content |-> NoFile, err |-> "unknown source kind"]

preparedHookWrite(op, content) == [HookName |-> op.HookName, Path |-> op.HookPath, Content |-> content]

\* prepareHookMigrationWrites: the prepared writes and the error; nil and the
\* error of the first source that cannot be rendered.
RECURSIVE prepareHookMigrationWrites(_, _)
prepareHookMigrationWrites(fs, writeOps) ==
    IF writeOps = <<>> THEN [prepared |-> <<>>, err |-> "nil"]
    ELSE LET r == renderMigratedHookContent(fs, Head(writeOps))
             rest == prepareHookMigrationWrites(fs, Tail(writeOps))
         IN  IF r.err # "nil" THEN [prepared |-> <<>>, err |-> r.err]
             ELSE IF rest.err # "nil" THEN rest
             ELSE [prepared |-> <<preparedHookWrite(Head(writeOps), r.content)>> \o rest.prepared,
                   err |-> "nil"]

\* The verdict on one retire operation, shared by validateRetireCollisionPolicy
\* and retireHookSidecar: the destination exists with other content than the
\* source, which exists.
RetireCollides(fs, op) ==
    /\ pathExists(fs, op.SourcePath)
    /\ pathExists(fs, op.DestinationPath)
    /\ ~filesEqual(fs, op.SourcePath, op.DestinationPath)

\* A collision policy that lets every retire operation through.
validateRetireCollisionPolicyNone(fs, retireOps) == "nil"

\* validateRetireCollisionPolicy when every os.Stat and read answers: the
\* error, "nil" for no error.
validateRetireCollisionPolicy(fs, retireOps) ==
    IF \E i \in DOMAIN retireOps : RetireCollides(fs, retireOps[i])
    THEN "artifact collision" ELSE "nil"

\* A retirement that renames the sidecar over whatever is at the destination.
retireHookSidecarOverwriting(fs, op) ==
    IF ~pathExists(fs, op.SourcePath)
    THEN [fs |-> fs, retired |-> "", err |-> "nil"]
    ELSE [fs |-> [fs EXCEPT ![op.DestinationPath] = fs[op.SourcePath],
                            ![op.SourcePath] = NoFile],
          retired |-> "renamed", err |-> "nil"]

\* retireHookSidecar when every file operation succeeds: the file system
\* after it, what it returns ("" for a skipped sidecar) and the error.
retireHookSidecar(fs, op) ==
    IF ~pathExists(fs, op.SourcePath)
    THEN [fs |-> fs, retired |-> "", err |-> "nil"]
    ELSE IF pathExists(fs, op.DestinationPath)
    THEN IF ~filesEqual(fs, op.SourcePath, op.DestinationPath)
         THEN [fs |-> fs, retired |-> "", err |-> "artifact collision"]
         ELSE [fs |-> [fs EXCEPT ![op.SourcePath] = NoFile],
               retired |-> "destination already existed", err |-> "nil"]
    ELSE [fs |-> [fs EXCEPT ![op.DestinationPath] = fs[op.SourcePath],
                            ![op.SourcePath] = NoFile],
          retired |-> "renamed", err |-> "nil"]

hookMigrationApplySummary(written, retired, skipped, writtenCount, retiredCount, skippedCount) ==
    [WrittenHooks |-> written, RetiredArtifacts |-> retired, SkippedArtifacts |-> skipped,
     WrittenHookCount |-> writtenCount, RetiredCount |-> retiredCount,
     SkippedCount |-> skippedCount]

ZeroSummary == hookMigrationApplySummary(<<>>, <<>>, <<>>, 0, 0, 0)

\* ---------------------------------------------------- remote consistency
\* The remotes of one side: a map from name to URL.
NoSide == [n \in {} |-> ""]
NoRemotes == [sql |-> NoSide, cli |-> NoSide]

DoctorCheck(status, message, issues, fixName) ==
    [Name |-> "Remote Consistency", Status |-> status, Message |-> message,
     Issues |-> issues, Fix |-> fixName]

NoCheck == DoctorCheck("", "", {}, "")

\* The names of one map that the other map does not have.
MissingFrom(this, other) == {name \in DOMAIN this : name \notin DOMAIN other}

\* The names both maps have, with different URLs.
Conflicting(sqlMap, cliMap) ==
    {name \in DOMAIN sqlMap : name \in DOMAIN cliMap /\ sqlMap[name] # cliMap[name]}

\* A check that offers the fix whenever it found a discrepancy.
CheckRemoteConsistencyEager(sqlMap, cliMap) ==
    LET issues == {<<name, "SQL only">> : name \in MissingFrom(sqlMap, cliMap)}
                    \cup {<<name, "CONFLICT">> : name \in Conflicting(sqlMap, cliMap)}
                    \cup {<<name, "CLI only">> : name \in MissingFrom(cliMap, sqlMap)}
    IN  IF DOMAIN sqlMap = {} /\ DOMAIN cliMap = {}
        THEN DoctorCheck("warning", "No remotes configured", {}, "")
        ELSE IF issues = {}
        THEN DoctorCheck("ok", "remote(s) in sync", {}, "")
        ELSE DoctorCheck("warning", "discrepanc(ies) found", issues, "Remote Consistency")

\* CheckRemoteConsistency on a Dolt backend whose two sides answer: the
\* issues are kept as a set, the order of the range over a map not being
\* fixed.
CheckRemoteConsistency(sqlMap, cliMap) ==
    LET issues == {<<name, "SQL only">> : name \in MissingFrom(sqlMap, cliMap)}
                    \cup {<<name, "CONFLICT">> : name \in Conflicting(sqlMap, cliMap)}
                    \cup {<<name, "CLI only">> : name \in MissingFrom(cliMap, sqlMap)}
        hasConflict == Conflicting(sqlMap, cliMap) # {}
    IN  IF DOMAIN sqlMap = {} /\ DOMAIN cliMap = {}
        THEN DoctorCheck("warning", "No remotes configured", {}, "")
        ELSE IF issues = {}
        THEN DoctorCheck("ok", "remote(s) in sync", {}, "")
        ELSE DoctorCheck("warning", "discrepanc(ies) found", issues,
                         IF ~hasConflict THEN "Remote Consistency" ELSE "")

\* RemoteConsistency's locals: the two maps, the names the running loop has
\* visited, the adds that gave a warning, the count of the adds that worked
\* and the error returned.
FixLocals(sqlMap, cliMap, visited, warned, fixed, err) ==
    [sqlMap |-> sqlMap, cliMap |-> cliMap, visited |-> visited, warned |-> warned,
     fixed |-> fixed, err |-> err]

NoFix == FixLocals(NoSide, NoSide, {}, {}, 0, "none")

\* ------------------------------------------------------------------ inputs

Dep(id, type) == [DependsOnID |-> id, Type |-> type]

\* bd-1: no reference to any issue.
I1 == Issue(Id1, <<X>>, <<>>, <<>>, <<>>, <<>>, <<>>)
\* bd-2: its title and description mention bd-1, its design mentions bd-10,
\* its notes mention bd-2; it depends on bd-10 and then on bd-1.
I2 == Issue(Id2, <<X, P, 1>>, <<P, 1, X>>, <<P, 1, 0>>, <<>>, <<P, 2>>,
            <<Dep(Id10, "blocks"), Dep(Id1, "related")>>)
\* bd-10: its acceptance criteria mention bd-10 and bd-1; it depends on bd-1.
I10 == Issue(Id10, <<X>>, <<>>, <<>>, <<P, 1, 0, X, P, 1>>, <<>>, <<Dep(Id1, "blocks")>>)

SeqsUpTo(S, n) == UNION {[1..k -> S] : k \in 0..n}

\* Free-form files: any of these lines after any other.
FreeLines ==
    {OpenLine, DivLine, DivXLine, CloseLine, BlankLine, JunkLine, RecLine(I1), RecLine(I2)}

FreeFiles == SeqsUpTo(FreeLines, MaxLines) \ {<<>>}

\* Region-shaped files: at most one line, a sealed region with up to MaxSide
\* issues on each side, at most one line.
SideLines == {RecLine(I1), RecLine(I10)}
AroundLines == {RecLine(I1), RecLine(I2), JunkLine}

RegionFiles ==
    {pre \o <<OpenLine>> \o h \o <<DivLine>> \o b \o <<CloseLine>> \o post :
        pre \in SeqsUpTo(AroundLines, 1), h \in SeqsUpTo(SideLines, MaxSide),
        b \in SeqsUpTo(SideLines, MaxSide), post \in SeqsUpTo(AroundLines, 1)}

\* Files of two sealed regions, with at most one issue on each side.
TwoRegionFiles ==
    {<<OpenLine>> \o h1 \o <<DivLine>> \o b1 \o <<CloseLine>>
        \o <<OpenLine>> \o h2 \o <<DivLine>> \o b2 \o <<CloseLine>> :
        h1 \in SeqsUpTo(SideLines, 1), b1 \in SeqsUpTo(SideLines, 1),
        h2 \in SeqsUpTo(SideLines, 1), b2 \in SeqsUpTo(SideLines, 1)}

\* The ids of the issues of the store: one whose next id, bd-10, is an id of
\* the inputs, and one whose next id, bd-11, is not.
SmallStore == {Id1, Id9}
LargeStore == {Id1, Id2, Id10}

Inputs ==
    (FreeFiles \X {SmallStore}) \cup ((RegionFiles \cup TwoRegionFiles) \X {SmallStore, LargeStore})

\* ------------------------------------------------------------- state machine
VARIABLES
    file,        \* the content of the JSONL file, as its lines
    fileBefore,  \* the content of the file when Run was entered
    store,       \* the ids of the issues store.SearchIssues returns
    auto,        \* --auto
    dryRun,      \* --dry-run
    pc,          \* where resolveConflictsCmd.Run is
    outcome,     \* how Run ended
    conflicts,   \* Run's conflicts
    resolutions, \* Run's resolutions
    lines,       \* applyResolutions' lines
    remapTable,  \* applyResolutions' remapTable
    lineIdx,     \* the index of the range over lines
    ap,          \* applyResolutions' loop locals
    writes,      \* how many times os.WriteFile ran
    text,        \* remapTextReferences' text
    table,       \* remapTextReferences' remapTable
    result,      \* remapTextReferences' result
    tpc,         \* where the remapTextReferences call is
    requestedDryRun, \* migrate hooks --dry-run
    requestedApply,  \* migrate hooks --apply
    requestedYes,    \* migrate hooks --yes
    jsonOutput,      \* --json
    isTerminal,      \* term.IsTerminal(stdin)
    plan,            \* the hooks of the plan doctor.PlanHookMigration returns
    stdin,           \* the line the user types at the prompt, "eof" for none
    mode,            \* migrateHooksCmd.Run's mode
    execPlan,        \* migrateHooksCmd.Run's execPlan
    hpc,             \* where migrateHooksCmd.Run is
    hookOutcome,     \* how migrateHooksCmd.Run ended
    fs,              \* the files of the hooks directory, by path
    fsBefore,        \* fs when applyHookMigrationExecution was entered
    preparedWrites,  \* applyHookMigrationExecution's preparedWrites
    summary,         \* applyHookMigrationExecution's summary
    applyErr,        \* the error applyHookMigrationExecution returns
    opIdx,           \* the index of the range over the writes or the retires
    apc,             \* where applyHookMigrationExecution is
    remotes,         \* the remotes of the SQL server and of the CLI config
    remotesBefore,   \* remotes when the doctor began
    check,           \* the DoctorCheck CheckRemoteConsistency returned
    fix,             \* RemoteConsistency's locals
    rmpc             \* where the remote consistency check and fix are

rcVars == <<file, fileBefore, store, auto, dryRun, pc, outcome, conflicts, resolutions, lines,
            remapTable, lineIdx, ap, writes>>
txVars == <<text, table, result, tpc>>
hkInputs == <<requestedDryRun, requestedApply, requestedYes, jsonOutput, isTerminal, plan, stdin>>
hkVars == <<hkInputs, mode, execPlan, hpc, hookOutcome>>
haVars == <<fs, fsBefore, preparedWrites, summary, applyErr, opIdx, apc>>
rmVars == <<remotes, remotesBefore, check, fix, rmpc>>
vars == <<rcVars, txVars, hkVars, haVars, rmVars>>

RcIdle ==
    /\ pc = "detect" /\ outcome = "none"
    /\ conflicts = <<>> /\ resolutions = <<>>
    /\ lines = <<>> /\ remapTable = NoTable /\ lineIdx = 0
    /\ ap = ApplyInit /\ writes = 0

TxIdle == text = <<>> /\ table = NoTable /\ result = <<>> /\ tpc = "idle"

HkIdle ==
    /\ requestedDryRun = FALSE /\ requestedApply = FALSE /\ requestedYes = FALSE
    /\ jsonOutput = FALSE /\ isTerminal = FALSE /\ plan = <<>> /\ stdin = ""
    /\ mode = ZeroMode /\ execPlan = EmptyExecPlan
    /\ hpc = "idle" /\ hookOutcome = "none"

HaIdle ==
    /\ fs = <<>> /\ fsBefore = fs
    /\ preparedWrites = <<>> /\ summary = ZeroSummary
    /\ applyErr = "none" /\ opIdx = 0 /\ apc = "idle"

RmIdle ==
    /\ remotes = NoRemotes /\ remotesBefore = remotes
    /\ check = NoCheck /\ fix = NoFix /\ rmpc = "idle"

\* The command run with --auto on any input.
Init ==
    /\ \E in \in Inputs : file = in[1] /\ store = in[2]
    /\ fileBefore = file
    /\ auto = TRUE /\ dryRun = FALSE
    /\ RcIdle
    /\ TxIdle
    /\ HkIdle
    /\ HaIdle
    /\ RmIdle

\* The command run with any flags on the region-shaped inputs.
InitAll ==
    /\ file \in RegionFiles /\ store \in {SmallStore, LargeStore}
    /\ fileBefore = file
    /\ auto \in BOOLEAN /\ dryRun \in BOOLEAN
    /\ RcIdle
    /\ TxIdle
    /\ HkIdle
    /\ HaIdle
    /\ RmIdle

End(how) == pc' = "done" /\ outcome' = how

\* Run, lines 46-92: detectConflicts and the two early returns.
Detect ==
    /\ pc = "detect"
    /\ conflicts' = detectConflicts(file)
    /\ IF Len(conflicts') = 0 THEN End("no_conflicts")
       ELSE IF ~auto /\ ~dryRun THEN End("detected")
       ELSE pc' = "resolve" /\ outcome' = outcome
    /\ UNCHANGED <<file, fileBefore, store, auto, dryRun, resolutions, lines, remapTable, lineIdx,
                   ap, writes, txVars, hkVars, haVars, rmVars>>

\* Run, lines 46-50: os.Open or the scanner fails.
DetectFail ==
    /\ pc = "detect"
    /\ End("detect_error")
    /\ UNCHANGED <<file, fileBefore, store, auto, dryRun, conflicts, resolutions, lines, remapTable,
                   lineIdx, ap, writes, txVars, hkVars, haVars, rmVars>>

\* A faulty Resolve: the dry-run return is taken only when --auto is not set.
ResolveAutoFirst ==
    /\ pc = "resolve"
    /\ resolutions' = resolveConflictsMechanical(conflicts, store)
    /\ IF dryRun /\ ~auto THEN End("dry_run") ELSE pc' = "apply" /\ outcome' = outcome
    /\ UNCHANGED <<file, fileBefore, store, auto, dryRun, conflicts, lines, remapTable,
                   lineIdx, ap, writes, txVars, hkVars, haVars, rmVars>>

\* Run, lines 94-127: resolveConflictsMechanical and the dry-run return.
Resolve ==
    /\ pc = "resolve"
    /\ resolutions' = resolveConflictsMechanical(conflicts, store)
    /\ IF dryRun THEN End("dry_run") ELSE pc' = "apply" /\ outcome' = outcome
    /\ UNCHANGED <<file, fileBefore, store, auto, dryRun, conflicts, lines, remapTable, lineIdx, ap,
                   writes, txVars, hkVars, haVars, rmVars>>

\* Run, lines 95-99: a getNextAvailableID call fails (no store, or
\* SearchIssues fails) and resolveConflictsMechanical returns nil and the error.
ResolveFail ==
    /\ pc = "resolve"
    /\ CallsStore(conflicts, store)
    /\ \E k \in 1..NumCalls(conflicts, store) :
          resolutions' = resolveConflictsFailing(conflicts, store, k)
    /\ End("resolve_error")
    /\ UNCHANGED <<file, fileBefore, store, auto, dryRun, conflicts, lines, remapTable,
                   lineIdx, ap, writes, txVars, hkVars, haVars, rmVars>>

\* applyResolutions, lines 296-315: the file is read and the table built.
ApplyRead ==
    /\ pc = "apply"
    /\ lines' = file
    /\ remapTable' = BuildRemapTable(resolutions, NoTable)
    /\ ap' = ApplyInit
    /\ lineIdx' = 1
    /\ pc' = "lines"
    /\ UNCHANGED <<file, fileBefore, store, auto, dryRun, outcome, conflicts, resolutions, writes,
                   txVars, hkVars, haVars, rmVars>>

\* A faulty ApplyReadFail: the file was opened for writing before it was
\* read, and is empty when the read fails.
ApplyReadFailTruncated ==
    /\ pc = "apply"
    /\ file' = <<BlankLine>>
    /\ End("apply_error")
    /\ UNCHANGED <<fileBefore, store, auto, dryRun, conflicts, resolutions, lines,
                   remapTable, lineIdx, ap, writes, txVars, hkVars, haVars, rmVars>>

\* applyResolutions, lines 297-300: os.ReadFile fails.
ApplyReadFail ==
    /\ pc = "apply"
    /\ End("apply_error")
    /\ UNCHANGED <<file, fileBefore, store, auto, dryRun, conflicts, resolutions, lines, remapTable,
                   lineIdx, ap, writes, txVars, hkVars, haVars, rmVars>>

\* applyResolutions, lines 317-419: one line of the loop.
ApplyLine ==
    /\ pc = "lines"
    /\ lineIdx <= Len(lines)
    /\ LET issue == lines[lineIdx].issue
       IN  \E d \in TextResults(issue.Description, remapTable),
              g \in TextResults(issue.Design, remapTable),
              c \in TextResults(issue.AcceptanceCriteria, remapTable),
              n \in TextResults(issue.Notes, remapTable) :
              ap' = ApplyStep(ap, lines[lineIdx], lineIdx, remapTable, d, g, c, n)
    /\ lineIdx' = lineIdx + 1
    /\ UNCHANGED <<file, fileBefore, store, auto, dryRun, pc, outcome, conflicts, resolutions, lines,
                   remapTable, writes, txVars, hkVars, haVars, rmVars>>

\* applyResolutions, lines 421-427, and Run, lines 135-148: the one write.
ApplyWrite ==
    /\ pc = "lines"
    /\ lineIdx > Len(lines)
    /\ file' = JoinLines(ap.resolved)
    /\ writes' = writes + 1
    /\ End("resolved")
    /\ UNCHANGED <<fileBefore, store, auto, dryRun, conflicts, resolutions, lines, remapTable,
                   lineIdx, ap, txVars, hkVars, haVars, rmVars>>

\* applyResolutions, lines 423-425: os.WriteFile fails, before or after it
\* truncated the file.
ApplyWriteFail ==
    /\ pc = "lines"
    /\ lineIdx > Len(lines)
    /\ file' \in {file, <<BlankLine>>}
    /\ writes' = writes + 1
    /\ End("apply_error")
    /\ UNCHANGED <<fileBefore, store, auto, dryRun, conflicts, resolutions, lines, remapTable,
                   lineIdx, ap, txVars, hkVars, haVars, rmVars>>

\* The command while every read, write and store query succeeds.
Next ==
    \/ Detect
    \/ Resolve
    \/ ApplyRead
    \/ ApplyLine
    \/ ApplyWrite

Spec == Init /\ [][Next]_vars

\* The command with its failures.
NextAll ==
    \/ Next
    \/ DetectFail
    \/ ResolveFail
    \/ ApplyReadFail
    \/ ApplyWriteFail

SpecAll == InitAll /\ [][NextAll]_vars

\* The command is entered a second time on the file it has resolved.
Rerun ==
    /\ pc = "done" /\ outcome = "resolved" /\ writes = 1
    /\ pc' = "detect" /\ outcome' = "none"
    /\ conflicts' = <<>> /\ resolutions' = <<>>
    /\ fileBefore' = file
    /\ UNCHANGED <<file, store, auto, dryRun, lines, remapTable, lineIdx, ap, writes,
                   txVars, hkVars, haVars, rmVars>>

\* The command run with --auto, and once more on its own output.
NextRerun ==
    \/ Next
    \/ Rerun

SpecRerun == Init /\ [][NextRerun]_vars

\* ------------------------------------------------ files without any marker
PlainLines == {BlankLine, JunkLine, RecLine(I1), RecLine(I2)}
PlainFiles == SeqsUpTo(PlainLines, MaxLines) \ {<<>>}

\* A file without markers: the command is run on it with any flags, or
\* applyResolutions is called on it with no conflicts and no resolutions.
InitNoop ==
    /\ file \in PlainFiles /\ fileBefore = file /\ store = SmallStore
    /\ \/ auto \in BOOLEAN /\ dryRun \in BOOLEAN /\ pc = "detect"
       \/ auto = TRUE /\ dryRun = FALSE /\ pc = "apply"
    /\ outcome = "none"
    /\ conflicts = <<>> /\ resolutions = <<>>
    /\ lines = <<>> /\ remapTable = NoTable /\ lineIdx = 0
    /\ ap = ApplyInit /\ writes = 0
    /\ TxIdle
    /\ HkIdle
    /\ HaIdle
    /\ RmIdle

NextNoop ==
    \/ Detect
    \/ ApplyRead
    \/ ApplyLine
    \/ ApplyWrite

SpecNoop == InitNoop /\ [][NextNoop]_vars

\* applyResolutions called on a file of one region with a resolution list of
\* its caller's making: the new ids are those of getNextAvailableID calls
\* between which the store may have grown.
OneRegionFiles ==
    {<<OpenLine>> \o h \o <<DivLine>> \o b \o <<CloseLine>> :
        h \in SeqsUpTo(SideLines, MaxSide), b \in SeqsUpTo(SideLines, MaxSide)}

CallResolutions ==
    {Keep(Id1, "HEAD version"), Remap(Id1, Id10), Remap(Id1, Id11), Remap(Id10, Id11)}

InitApplyCall ==
    /\ file \in OneRegionFiles /\ fileBefore = file /\ store = SmallStore
    /\ auto = TRUE /\ dryRun = FALSE /\ pc = "apply"
    /\ outcome = "none"
    /\ conflicts = detectConflicts(file)
    /\ resolutions \in SeqsUpTo(CallResolutions, MaxSide)
    /\ lines = <<>> /\ remapTable = NoTable /\ lineIdx = 0
    /\ ap = ApplyInit /\ writes = 0
    /\ TxIdle
    /\ HkIdle
    /\ HaIdle
    /\ RmIdle

NextApplyCall ==
    \/ ApplyRead
    \/ ApplyLine
    \/ ApplyWrite

SpecApplyCall == InitApplyCall /\ [][NextApplyCall]_vars

\* ------------------------------------------------- remapTextReferences alone
TextSymbols == {P, 0, 1, 2, X}
Texts == SeqsUpTo(TextSymbols, MaxText)

\* Remap tables a run can build.  Every entry of a run has the same new id,
\* the store's next one: bd-1 collides and the store's highest id is bd-5;
\* bd-1 and bd-2 collide and the highest is bd-1; bd-1 and bd-10 collide and
\* the highest is bd-10, or bd-9.
Tables ==
    {Id1 :> <<P, 6>>,
     (Id1 :> Id2) @@ (Id2 :> Id2),
     (Id1 :> Id11) @@ (Id10 :> Id11),
     (Id1 :> Id10) @@ (Id10 :> Id10)}

InitText ==
    /\ text \in Texts /\ table \in Tables /\ result = <<>> /\ tpc = "call"
    /\ file = <<BlankLine>> /\ fileBefore = file /\ store = {}
    /\ auto = FALSE /\ dryRun = FALSE
    /\ RcIdle
    /\ HkIdle
    /\ HaIdle
    /\ RmIdle

\* One call of remapTextReferences.
RemapCall ==
    /\ tpc = "call"
    /\ result' \in TextResults(text, table)
    /\ tpc' = "returned"
    /\ UNCHANGED <<text, table, rcVars, hkVars, haVars, rmVars>>

NextText == RemapCall

SpecText == InitText /\ [][NextText]_vars

\* ------------------------------------------------- the migrate hooks command
\* The k-th hook of a plan.
HookNames == <<"pre-commit", "post-merge", "pre-push", "post-checkout">>

\* What the planner can report for the hook called name: each kind of state,
\* with the sidecars the state names, and a state the command does not know.
HooksNamed(name) ==
    {HookPlan(name, "marker_managed", FALSE, FALSE, FALSE, "", ""),
     HookPlan(name, "marker_broken", FALSE, FALSE, FALSE, "", "Run bd hooks install"),
     HookPlan(name, "read_error", FALSE, FALSE, FALSE, "permission denied", ""),
     HookPlan(name, "legacy_only", TRUE, FALSE, FALSE, "", ""),
     HookPlan(name, "legacy_with_old_sidecar", TRUE, TRUE, FALSE, "", ""),
     HookPlan(name, "legacy_with_both_sidecars", TRUE, TRUE, TRUE, "", ""),
     HookPlan(name, "missing_with_backup_sidecar", TRUE, FALSE, TRUE, "", ""),
     HookPlan(name, "missing_with_both_sidecars", TRUE, TRUE, TRUE, "", ""),
     HookPlan(name, "custom_with_sidecars", TRUE, TRUE, FALSE, "", ""),
     HookPlan(name, "unmanaged_custom", FALSE, FALSE, FALSE, "", ""),
     HookPlan(name, "missing_no_artifacts", FALSE, FALSE, FALSE, "", ""),
     HookPlan(name, "unknown_state", TRUE, TRUE, FALSE, "", ""),
     HookPlan(name, "unknown_state", FALSE, FALSE, FALSE, "", "")}

\* The plans of up to MaxHooks hooks.
HookPlans ==
    UNION {{p \in [1..n -> UNION {HooksNamed(HookNames[k]) : k \in 1..n}] :
               \A k \in 1..n : p[k].Name = HookNames[k]} : n \in 0..MaxHooks}

InitHooks ==
    /\ requestedDryRun \in BOOLEAN /\ requestedApply \in BOOLEAN /\ requestedYes \in BOOLEAN
    /\ jsonOutput \in BOOLEAN /\ isTerminal \in BOOLEAN
    /\ plan \in HookPlans /\ stdin = ""
    /\ mode = ZeroMode /\ execPlan = EmptyExecPlan
    /\ hpc = "validate" /\ hookOutcome = "none"
    /\ file = <<BlankLine>> /\ fileBefore = file /\ store = {}
    /\ auto = FALSE /\ dryRun = FALSE
    /\ RcIdle
    /\ TxIdle
    /\ HaIdle
    /\ RmIdle

HookEnd(how) == hpc' = "done" /\ hookOutcome' = how

\* Run, lines 30-37: the flags are read and validated.
HookValidate ==
    /\ hpc = "validate"
    /\ LET v == validateHookMigrationMode(requestedDryRun, requestedApply, requestedYes)
       IN  /\ mode' = v.mode
           /\ IF v.err # "nil" THEN HookEnd("fatal_mode")
              ELSE hpc' = "plan" /\ hookOutcome' = hookOutcome
    /\ UNCHANGED <<hkInputs, execPlan, rcVars, txVars, haVars, rmVars>>

\* Run, lines 39-58: the plan is made and turned into the execution plan.
HookPlanBuild ==
    /\ hpc = "plan"
    /\ execPlan' = buildHookMigrationExecutionPlan(plan)
    /\ hpc' = "gate"
    /\ UNCHANGED <<hkInputs, mode, hookOutcome, rcVars, txVars, haVars, rmVars>>

\* Run, lines 39-56: CheckReadonly, filepath.Abs or doctor.PlanHookMigration
\* ends the command.
HookPlanFail ==
    /\ hpc = "plan"
    /\ HookEnd("fatal_plan")
    /\ UNCHANGED <<hkInputs, mode, execPlan, rcVars, txVars, haVars, rmVars>>

\* Run, lines 60-69: with --apply, blocking errors and missing consent end
\* the command.
HookGate ==
    /\ hpc = "gate"
    /\ IF mode.RequestedApply /\ Len(execPlan.BlockingErrors) > 0
       THEN HookEnd("fatal_blocked")
       ELSE IF /\ mode.RequestedApply /\ operationCount(execPlan) > 0
               /\ validateHookMigrationApplyConsent(mode.RequestedYes, isTerminal, jsonOutput)
                      # "nil"
       THEN HookEnd("fatal_consent")
       ELSE hpc' = "output" /\ hookOutcome' = hookOutcome
    /\ UNCHANGED <<hkInputs, mode, execPlan, rcVars, txVars, haVars, rmVars>>

\* Run, lines 71-93: the plan is printed; without --apply the command returns,
\* with --apply it goes on to maybeApplyHookMigration.
HookOutput ==
    /\ hpc = "output"
    /\ IF mode.RequestedApply THEN hpc' = "maybe_apply" /\ hookOutcome' = hookOutcome
       ELSE IF jsonOutput \/ mode.RequestedDryRun THEN HookEnd("preview")
       ELSE hpc' = "maybe_apply" /\ hookOutcome' = hookOutcome
    /\ UNCHANGED <<hkInputs, mode, execPlan, rcVars, txVars, haVars, rmVars>>

NextHooks ==
    \/ HookValidate
    \/ HookPlanBuild
    \/ HookPlanFail
    \/ HookGate
    \/ HookOutput

SpecHooks == InitHooks /\ [][NextHooks]_vars

\* ------------------------------------------- applyHookMigrationExecution
\* The five paths of a hook: the hook file, its sidecars and the retired
\* sidecars.
OldPath(hook) == WithSuffix(hook.HookPath, "old")
BackupPath(hook) == WithSuffix(hook.HookPath, "backup")
Migrated(path) == WithSuffix(path, "migrated")

\* A sidecar the plan reports and the file at its retirement destination: the
\* destination is free, holds the same content or holds other content; or
\* the sidecar has gone since the plan was made.
SidecarStates(present, body) ==
    IF present
    THEN {<<FileOf(body), NoFile>>, <<FileOf(body), FileOf(body)>>,
          <<FileOf(body), FileOf("other")>>, <<NoFile, NoFile>>}
    ELSE {<<NoFile, NoFile>>}

\* The hook file a state is reported for.
HookFileOf(hook) ==
    IF hook.State \in {"missing_with_old_sidecar", "missing_with_both_sidecars",
                       "missing_with_backup_sidecar", "missing_no_artifacts"}
    THEN NoFile
    ELSE IF hook.State \in {"custom_with_sidecars", "unmanaged_custom"} THEN FileOf("custom")
    ELSE IF hook.State = "marker_managed"
    THEN [exists |-> TRUE, body |-> "custom", section |-> hook.Name]
    ELSE FileOf("shim")

\* The files of one hook that agree with what the plan reports for it.
HookFiles(hook) ==
    {(hook.HookPath :> HookFileOf(hook))
        @@ (OldPath(hook) :> o[1]) @@ (Migrated(OldPath(hook)) :> o[2])
        @@ (BackupPath(hook) :> b[1]) @@ (Migrated(BackupPath(hook)) :> b[2]) :
        o \in SidecarStates(hook.HasOldSidecar, "old"),
        b \in SidecarStates(hook.HasBackupSidecar, "backup")}

RECURSIVE FilesOf(_)
FilesOf(hooks) ==
    IF hooks = <<>> THEN {<<>>}
    ELSE {f @@ g : f \in HookFiles(Head(hooks)), g \in FilesOf(Tail(hooks))}

\* applyHookMigrationExecution called with the execution plan of a plan, as
\* maybeApplyHookMigration and the tests call it.
InitHookApply ==
    /\ plan \in HookPlans
    /\ execPlan = buildHookMigrationExecutionPlan(plan)
    /\ fs \in FilesOf(plan) /\ fsBefore = fs
    /\ preparedWrites = <<>> /\ summary = ZeroSummary
    /\ applyErr = "none" /\ opIdx = 0 /\ apc = "blocking"
    /\ requestedDryRun = FALSE /\ requestedApply = TRUE /\ requestedYes = TRUE
    /\ jsonOutput = FALSE /\ isTerminal = FALSE /\ stdin = ""
    /\ mode = hookMigrationMode(FALSE, TRUE, TRUE)
    /\ hpc = "maybe_apply" /\ hookOutcome = "none"
    /\ file = <<BlankLine>> /\ fileBefore = file /\ store = {}
    /\ auto = FALSE /\ dryRun = FALSE
    /\ RcIdle
    /\ TxIdle
    /\ RmIdle

HaReturn(s, err) == summary' = s /\ applyErr' = err /\ apc' = "done"

\* applyHookMigrationExecution going on to the writes whatever the plan says.
HaBlockingIgnored ==
    /\ apc = "blocking"
    /\ apc' = "prepare"
    /\ UNCHANGED <<summary, applyErr, fs, fsBefore, preparedWrites, opIdx, hkVars, rcVars,
                   txVars, rmVars>>

\* applyHookMigrationExecution, lines 212-218: blocking errors end the call.
HaBlocking ==
    /\ apc = "blocking"
    /\ IF Len(execPlan.BlockingErrors) > 0
       THEN HaReturn(ZeroSummary, "hook migration blocked")
       ELSE apc' = "prepare" /\ UNCHANGED <<summary, applyErr>>
    /\ UNCHANGED <<fs, fsBefore, preparedWrites, opIdx, hkVars, rcVars, txVars, rmVars>>

\* Lines 220-223: every write source is read and rendered.
HaPrepare ==
    /\ apc = "prepare"
    /\ LET r == prepareHookMigrationWrites(fs, execPlan.WriteOps)
       IN  /\ preparedWrites' = r.prepared
           /\ IF r.err # "nil" THEN HaReturn(ZeroSummary, r.err)
              ELSE apc' = "validate" /\ UNCHANGED <<summary, applyErr>>
    /\ UNCHANGED <<fs, fsBefore, opIdx, hkVars, rcVars, txVars, rmVars>>

\* Lines 225-233: every retire operation is checked for a collision, and
\* the summary is made.
HaValidateRetire ==
    /\ apc = "validate"
    /\ LET err == validateRetireCollisionPolicy(fs, execPlan.RetireOps)
       IN  IF err # "nil" THEN HaReturn(ZeroSummary, err) /\ opIdx' = opIdx
           ELSE /\ apc' = "write" /\ opIdx' = 1
                /\ summary' = ZeroSummary /\ applyErr' = applyErr
    /\ UNCHANGED <<fs, fsBefore, preparedWrites, hkVars, rcVars, txVars, rmVars>>

\* Lines 235-241, one turn of the loop: a hook file is written.
HaWrite ==
    /\ apc = "write" /\ opIdx <= Len(preparedWrites)
    /\ LET write == preparedWrites[opIdx]
       IN  /\ fs' = [fs EXCEPT ![write.Path] = write.Content]
           /\ summary' = [summary EXCEPT !.WrittenHooks = Append(@, write.HookName)]
    /\ opIdx' = opIdx + 1
    /\ UNCHANGED <<fsBefore, preparedWrites, applyErr, apc, hkVars, rcVars, txVars, rmVars>>

\* Lines 237-239: os.WriteFile fails, and leaves the hook file as it was or
\* truncated.
HaWriteFail ==
    /\ apc = "write" /\ opIdx <= Len(preparedWrites)
    /\ LET write == preparedWrites[opIdx]
       IN  \E left \in {fs[write.Path], FileOf("")} :
               fs' = [fs EXCEPT ![write.Path] = left]
    /\ HaReturn(summary, "writing migrated hook")
    /\ UNCHANGED <<fsBefore, preparedWrites, opIdx, hkVars, rcVars, txVars, rmVars>>

\* Line 243: the loop over the writes is over.
HaWritesDone ==
    /\ apc = "write" /\ opIdx > Len(preparedWrites)
    /\ apc' = "retire" /\ opIdx' = 1
    /\ UNCHANGED <<fs, fsBefore, preparedWrites, summary, applyErr, hkVars, rcVars, txVars, rmVars>>

\* Lines 243-253, one turn of the loop: a sidecar is retired or skipped, or
\* its collision ends the call.
HaRetire ==
    /\ apc = "retire" /\ opIdx <= Len(execPlan.RetireOps)
    /\ LET retire == execPlan.RetireOps[opIdx]
           r == retireHookSidecar(fs, retire)
       IN  /\ fs' = r.fs
           /\ IF r.err # "nil" THEN HaReturn(summary, r.err) /\ opIdx' = opIdx
              ELSE /\ summary' =
                         IF r.retired = ""
                         THEN [summary EXCEPT !.SkippedArtifacts = Append(@, retire.SourcePath)]
                         ELSE [summary EXCEPT !.RetiredArtifacts =
                                                  Append(@, <<retire.SourcePath, r.retired>>)]
                   /\ opIdx' = opIdx + 1
                   /\ UNCHANGED <<applyErr, apc>>
    /\ UNCHANGED <<fsBefore, preparedWrites, hkVars, rcVars, txVars, rmVars>>

\* retireHookSidecar, lines 356-385: os.Stat, a read, os.Remove or os.Rename
\* fails.
HaRetireFail ==
    /\ apc = "retire" /\ opIdx <= Len(execPlan.RetireOps)
    /\ HaReturn(summary, "retiring sidecar")
    /\ UNCHANGED <<fs, fsBefore, preparedWrites, opIdx, hkVars, rcVars, txVars, rmVars>>

\* A return that leaves the three counts as they were made.
HaFinishUncounted ==
    /\ apc = "retire" /\ opIdx > Len(execPlan.RetireOps)
    /\ HaReturn(summary, "nil")
    /\ UNCHANGED <<fs, fsBefore, preparedWrites, opIdx, hkVars, rcVars, txVars, rmVars>>

\* Lines 255-259: the counts are set and the summary is returned.
HaFinish ==
    /\ apc = "retire" /\ opIdx > Len(execPlan.RetireOps)
    /\ HaReturn([summary EXCEPT !.WrittenHookCount = Len(summary.WrittenHooks),
                                !.RetiredCount = Len(summary.RetiredArtifacts),
                                !.SkippedCount = Len(summary.SkippedArtifacts)], "nil")
    /\ UNCHANGED <<fs, fsBefore, preparedWrites, opIdx, hkVars, rcVars, txVars, rmVars>>

NextHookApply ==
    \/ HaBlocking
    \/ HaPrepare
    \/ HaValidateRetire
    \/ HaWrite
    \/ HaWriteFail
    \/ HaWritesDone
    \/ HaRetire
    \/ HaRetireFail
    \/ HaFinish

SpecHookApply == InitHookApply /\ [][NextHookApply]_vars

\* -------------------------------------- migrate hooks, from flags to files
\* strings.TrimSpace(strings.ToLower(response)) on the lines of Answers.
NormalizeResponse(response) ==
    IF response = "Y" THEN "y" ELSE IF response = " yes " THEN "yes" ELSE response

\* confirmHookMigrationApply: whether the user confirmed, and the error.
confirmHookMigrationApply(response) ==
    IF response = "eof" THEN [confirmed |-> FALSE, err |-> "reading confirmation"]
    ELSE [confirmed |-> NormalizeResponse(response) \in {"", "y", "yes"}, err |-> "nil"]

\* What the user can type, "eof" for an input that ends before a newline.
Answers == {"", "y", "yes", "Y", " yes ", "n", "no", "eof"}

\* What the planner reports to the command for the hook called name.
CmdHooksNamed(name) ==
    {HookPlan(name, "marker_managed", FALSE, FALSE, FALSE, "", ""),
     HookPlan(name, "marker_broken", FALSE, FALSE, FALSE, "", "Run bd hooks install"),
     HookPlan(name, "legacy_only", TRUE, FALSE, FALSE, "", ""),
     HookPlan(name, "legacy_with_old_sidecar", TRUE, TRUE, FALSE, "", "")}

CmdHookPlans ==
    UNION {{p \in [1..n -> UNION {CmdHooksNamed(HookNames[k]) : k \in 1..n}] :
               \A k \in 1..n : p[k].Name = HookNames[k]} : n \in 0..MaxHooks}

\* The command run with any flags, on a terminal or not, on the files the
\* plan was made from.
InitHookCmd ==
    /\ requestedDryRun \in BOOLEAN /\ requestedApply \in BOOLEAN /\ requestedYes \in BOOLEAN
    /\ jsonOutput \in BOOLEAN /\ isTerminal \in BOOLEAN
    /\ plan \in CmdHookPlans /\ stdin \in Answers
    /\ mode = ZeroMode /\ execPlan = EmptyExecPlan
    /\ hpc = "validate" /\ hookOutcome = "none"
    /\ fs \in FilesOf(plan) /\ fsBefore = fs
    /\ preparedWrites = <<>> /\ summary = ZeroSummary
    /\ applyErr = "none" /\ opIdx = 0 /\ apc = "idle"
    /\ file = <<BlankLine>> /\ fileBefore = file /\ store = {}
    /\ auto = FALSE /\ dryRun = FALSE
    /\ RcIdle
    /\ TxIdle
    /\ RmIdle

\* A maybeApplyHookMigration that applies without asking.
HookMaybeApplyUnasked ==
    /\ hpc = "maybe_apply" /\ apc = "idle"
    /\ IF operationCount(execPlan) = 0
       THEN HookEnd("applied") /\ apc' = apc
       ELSE apc' = "blocking" /\ UNCHANGED <<hpc, hookOutcome>>
    /\ UNCHANGED <<hkInputs, mode, execPlan, fs, fsBefore, preparedWrites, summary, applyErr,
                   opIdx, rcVars, txVars, rmVars>>

\* maybeApplyHookMigration, lines 113-126, and Run, lines 74-82 and 97-104:
\* nothing to do, or the user is asked unless --yes was given, and
\* applyHookMigrationExecution is entered or the command ends.
HookMaybeApply ==
    /\ hpc = "maybe_apply" /\ apc = "idle"
    /\ IF operationCount(execPlan) = 0
       THEN HookEnd("applied") /\ apc' = apc
       ELSE IF ~mode.RequestedYes /\ confirmHookMigrationApply(stdin).err # "nil"
       THEN HookEnd("fatal_apply") /\ apc' = apc
       ELSE IF ~mode.RequestedYes /\ ~confirmHookMigrationApply(stdin).confirmed
       THEN HookEnd("canceled") /\ apc' = apc
       ELSE apc' = "blocking" /\ UNCHANGED <<hpc, hookOutcome>>
    /\ UNCHANGED <<hkInputs, mode, execPlan, fs, fsBefore, preparedWrites, summary, applyErr,
                   opIdx, rcVars, txVars, rmVars>>

\* maybeApplyHookMigration, lines 128-129, and Run, lines 74-76 and 97-108:
\* applyHookMigrationExecution has returned; its error is fatal.
HookApplyReturn ==
    /\ hpc = "maybe_apply" /\ apc = "done"
    /\ HookEnd(IF applyErr = "nil" THEN "applied" ELSE "fatal_apply")
    /\ UNCHANGED <<hkInputs, mode, execPlan, haVars, rcVars, txVars, rmVars>>

NextHookCmd ==
    \/ HookValidate
    \/ HookPlanBuild
    \/ HookPlanFail
    \/ HookGate
    \/ HookOutput
    \/ HookMaybeApply
    \/ HaBlocking
    \/ HaPrepare
    \/ HaValidateRetire
    \/ HaWrite
    \/ HaWriteFail
    \/ HaWritesDone
    \/ HaRetire
    \/ HaRetireFail
    \/ HaFinish
    \/ HookApplyReturn

SpecHookCmd == InitHookCmd /\ [][NextHookCmd]_vars

\* ------------------------------------ the remote consistency check and fix
RemoteNames == <<"origin", "backup", "upstream">>
RemoteURLs == {"url_a", "url_b"}

\* The maps from some of the first MaxRemotes names to the URLs.
Sides ==
    UNION {[S -> RemoteURLs] : S \in SUBSET {RemoteNames[k] : k \in 1..MaxRemotes}}

\* The doctor runs the check on any two sides and RemoteConsistency after it.
InitRemotes ==
    /\ remotes \in [sql : Sides, cli : Sides] /\ remotesBefore = remotes
    /\ check = NoCheck /\ fix = NoFix /\ rmpc = "check"
    /\ file = <<BlankLine>> /\ fileBefore = file /\ store = {}
    /\ auto = FALSE /\ dryRun = FALSE
    /\ RcIdle
    /\ TxIdle
    /\ HkIdle
    /\ HaIdle

\* CheckRemoteConsistency, lines 55-129: both sides answered.
RemoteCheck ==
    /\ rmpc = "check"
    /\ check' = CheckRemoteConsistency(remotes.sql, remotes.cli)
    /\ rmpc' = "fix"
    /\ UNCHANGED <<remotes, remotesBefore, fix, rcVars, txVars, hkVars, haVars>>

\* CheckRemoteConsistency, lines 20-53: the backend is not Dolt, or a side
\* does not answer; no fix is offered.
RemoteCheckUnavailable ==
    /\ rmpc = "check"
    /\ \E r \in {DoctorCheck("ok", "N/A (not using Dolt backend)", {}, ""),
                  DoctorCheck("ok", "Could not query SQL remotes", {}, ""),
                  DoctorCheck("warning", "Could not query CLI remotes", {}, "")} :
          check' = r
    /\ rmpc' = "done"
    /\ UNCHANGED <<remotes, remotesBefore, fix, rcVars, txVars, hkVars, haVars>>

\* RemoteConsistency, lines 18-55: both sides are read into the two maps.
RemoteFixRead ==
    /\ rmpc = "fix"
    /\ fix' = FixLocals(remotes.sql, remotes.cli, {}, {}, 0, "none")
    /\ rmpc' = "add_cli"
    /\ UNCHANGED <<remotes, remotesBefore, check, rcVars, txVars, hkVars, haVars>>

\* RemoteConsistency, lines 19-44: the config, the connection or a query
\* fails and the error is returned.
RemoteFixFail ==
    /\ rmpc = "fix"
    /\ fix' = [fix EXCEPT !.err = "failed"]
    /\ rmpc' = "done"
    /\ UNCHANGED <<remotes, remotesBefore, check, rcVars, txVars, hkVars, haVars>>

\* Lines 58-69, one turn of the range over sqlMap: dolt remote add runs for
\* a name cliMap does not have.
RemoteAddCLI ==
    /\ rmpc = "add_cli"
    /\ \E name \in DOMAIN fix.sqlMap \ fix.visited :
          IF name \in MissingFrom(fix.sqlMap, fix.cliMap)
          THEN /\ remotes' = [remotes EXCEPT !.cli = (name :> fix.sqlMap[name]) @@ @]
               /\ fix' = [fix EXCEPT !.visited = @ \cup {name}, !.fixed = @ + 1]
          ELSE /\ remotes' = remotes
               /\ fix' = [fix EXCEPT !.visited = @ \cup {name}]
    /\ UNCHANGED <<remotesBefore, check, rmpc, rcVars, txVars, hkVars, haVars>>

\* Lines 62-63: dolt remote add fails and a warning is printed.
RemoteAddCLIWarn ==
    /\ rmpc = "add_cli"
    /\ \E name \in MissingFrom(fix.sqlMap, fix.cliMap) \ fix.visited :
          fix' = [fix EXCEPT !.visited = @ \cup {name}, !.warned = @ \cup {name}]
    /\ UNCHANGED <<remotes, remotesBefore, check, rmpc, rcVars, txVars, hkVars, haVars>>

\* Line 72: the range over sqlMap is over and the range over cliMap begins.
RemoteCLIDone ==
    /\ rmpc = "add_cli" /\ fix.visited = DOMAIN fix.sqlMap
    /\ fix' = [fix EXCEPT !.visited = {}]
    /\ rmpc' = "add_sql"
    /\ UNCHANGED <<remotes, remotesBefore, check, rcVars, txVars, hkVars, haVars>>

\* Lines 72-81, one turn of the range over cliMap: DOLT_REMOTE('add') runs
\* for a name sqlMap does not have.
RemoteAddSQL ==
    /\ rmpc = "add_sql"
    /\ \E name \in DOMAIN fix.cliMap \ fix.visited :
          IF name \in MissingFrom(fix.cliMap, fix.sqlMap)
          THEN /\ remotes' = [remotes EXCEPT !.sql = (name :> fix.cliMap[name]) @@ @]
               /\ fix' = [fix EXCEPT !.visited = @ \cup {name}, !.fixed = @ + 1]
          ELSE /\ remotes' = remotes
               /\ fix' = [fix EXCEPT !.visited = @ \cup {name}]
    /\ UNCHANGED <<remotesBefore, check, rmpc, rcVars, txVars, hkVars, haVars>>

\* Lines 74-75: the call fails and a warning is printed.
RemoteAddSQLWarn ==
    /\ rmpc = "add_sql"
    /\ \E name \in MissingFrom(fix.cliMap, fix.sqlMap) \ fix.visited :
          fix' = [fix EXCEPT !.visited = @ \cup {name}, !.warned = @ \cup {name}]
    /\ UNCHANGED <<remotes, remotesBefore, check, rmpc, rcVars, txVars, hkVars, haVars>>

\* Lines 83-93: the conflicts are printed as skipped and nil is returned.
RemoteFixReturn ==
    /\ rmpc = "add_sql" /\ fix.visited = DOMAIN fix.cliMap
    /\ fix' = [fix EXCEPT !.err = "nil"]
    /\ rmpc' = "done"
    /\ UNCHANGED <<remotes, remotesBefore, check, rcVars, txVars, hkVars, haVars>>

NextRemotes ==
    \/ RemoteCheck
    \/ RemoteCheckUnavailable
    \/ RemoteFixRead
    \/ RemoteFixFail
    \/ RemoteAddCLI
    \/ RemoteAddCLIWarn
    \/ RemoteCLIDone
    \/ RemoteAddSQL
    \/ RemoteAddSQLWarn
    \/ RemoteFixReturn

SpecRemotes == InitRemotes /\ [][NextRemotes]_vars

\* ================================================================== claims
\* The run resolved the file: applyResolutions wrote it and Run returned.
Applied == pc = "done" /\ outcome = "resolved"

\* The numbers of the lines of ls that parse as an issue.
RecIdx(ls) == {i \in DOMAIN ls : Parses(ls[i])}

\* Input line i lies strictly inside a region detectConflicts reported.
Sealed(i) ==
    \E k \in DOMAIN conflicts : conflicts[k].LineStart < i /\ i < conflicts[k].LineEnd

\* Input line i is an issue the scanner put on the head (base) side of a
\* region it reported.
HeadRecs ==
    {i \in RecIdx(lines) :
        Sealed(i) /\ ScanPrefix(lines, i - 1).inConflict /\ ScanPrefix(lines, i - 1).inHead}

BaseRecs ==
    {i \in RecIdx(lines) :
        Sealed(i) /\ ScanPrefix(lines, i - 1).inConflict /\ ~ScanPrefix(lines, i - 1).inHead}

\* The lines of the output made from input line i.
OutOf(i) == {j \in DOMAIN ap.resolvedFrom : ap.resolvedFrom[j] = i}

\* The Remap resolutions of the run.
RemapIdx == {r \in DOMAIN resolutions : resolutions[r].Action = "remap"}

\* The ids of the issues on the lines ls.
FileIds(ls) == {ls[i].issue.ID : i \in RecIdx(ls)}

\* C1: after resolve and apply, every head-side record of every sealed region
\* is in the output with the id it had in the input, also when a base-side
\* record with the same id was remapped.
C1_HeadKeepsIdentity ==
    Applied =>
        \A i \in HeadRecs : \E j \in OutOf(i) : file[j].issue.ID = lines[i].issue.ID

\* The only repeated ids of the input are ids that occur once on a head side
\* and once on a base side.
OnlyHeadBaseRepeats ==
    \A i, k \in RecIdx(lines) :
        (i # k /\ lines[i].issue.ID = lines[k].issue.ID) =>
            \/ i \in HeadRecs /\ k \in BaseRecs
            \/ k \in HeadRecs /\ i \in BaseRecs

\* C2: for an input whose only repeated ids occur once on a head side and once
\* on a base side, no two records of the output file carry the same id.
C2_UniqueIds ==
    (Applied /\ OnlyHeadBaseRepeats) =>
        \A j, k \in RecIdx(file) : j # k => file[j].issue.ID # file[k].issue.ID

\* C3: the Remap resolutions of one run carry pairwise distinct new ids, each
\* different from every id of the file and of the store and above the
\* namespace's high-water mark.
C3_CollisionUniqueness ==
    pc = "apply" =>
        /\ \A q, r \in RemapIdx : q # r => resolutions[q].NewID # resolutions[r].NewID
        /\ \A r \in RemapIdx :
              /\ resolutions[r].NewID \notin FileIds(file)
              /\ resolutions[r].NewID \notin store
              /\ ScanInt(LastPart(resolutions[r].NewID)) > MaxNum(store)

\* The ids that are on the head side of some region and on no base side.
HeadOnlyIds == {lines[i].issue.ID : i \in HeadRecs} \ {lines[i].issue.ID : i \in BaseRecs}

\* C4: an id that is on the head side of some region and on no base side is
\* still the id of its head record in the output, and no Remap resolution has
\* it as its new id.
C4_HeadPriority ==
    Applied =>
        \A i \in HeadRecs :
            lines[i].issue.ID \in HeadOnlyIds =>
                /\ \E j \in OutOf(i) : file[j].issue.ID = lines[i].issue.ID
                /\ \A r \in RemapIdx : resolutions[r].NewID # lines[i].issue.ID

\* The target the claim gives a dependency edge whose input target is id.
TargetAsClaimed(id) == IF id \in DOMAIN remapTable THEN remapTable[id] ELSE id

\* The edges out are the edges in, one for one and in order, each target that
\* is a key of the remap table replaced by its value.
DepsAsClaimed(in, out) ==
    /\ Len(out) = Len(in)
    /\ \A k \in DOMAIN in :
          /\ out[k].DependsOnID = TargetAsClaimed(in[k].DependsOnID)
          /\ out[k].Type = in[k].Type

\* C5: in the output, every record made from a parseable input line, inside
\* or outside a conflict region, has that line's dependency edges in the same
\* order and number, a target that is a key of the remap table replaced by the
\* table's value and every other target unchanged.
C5_DependencyEdges ==
    Applied =>
        \A j \in DOMAIN ap.resolvedFrom :
            Parses(lines[ap.resolvedFrom[j]]) =>
                DepsAsClaimed(lines[ap.resolvedFrom[j]].issue.Dependencies,
                              file[j].issue.Dependencies)

\* Output line j has an edge whose target the table changed and one it kept.
EdgeChangedAndKept(j) ==
    LET in == lines[ap.resolvedFrom[j]].issue.Dependencies
        out == file[j].issue.Dependencies
    IN  /\ \E k \in DOMAIN in : out[k].DependsOnID # in[k].DependsOnID
        /\ \E k \in DOMAIN in : in[k].DependsOnID \notin DOMAIN remapTable

\* C5's case: a resolved file with a rewritten edge in a record outside every
\* region, beside an edge that is kept, and a rewritten edge in a record of a
\* region.
C5_Witness ==
    /\ Applied
    /\ \E j \in DOMAIN ap.resolvedFrom :
          ~Sealed(ap.resolvedFrom[j]) /\ EdgeChangedAndKept(j)
    /\ \E j \in DOMAIN ap.resolvedFrom :
          /\ Sealed(ap.resolvedFrom[j])
          /\ \E k \in DOMAIN file[j].issue.Dependencies :
                file[j].issue.Dependencies[k].DependsOnID
                    # lines[ap.resolvedFrom[j]].issue.Dependencies[k].DependsOnID

\* How many times sub occurs in s, overlaps counted.
Occurrences(s, sub) == Cardinality({i \in 1..Len(s) : MatchAt(s, i, sub)})

\* C6: when bd-1 is a key of the remap table and bd-10, which contains it, is
\* not, remapTextReferences leaves every occurrence of bd-10 as it is.
C6_LongerIdUntouched ==
    (tpc = "returned" /\ Id1 \in DOMAIN table /\ Id10 \notin DOMAIN table) =>
        Occurrences(result, Id10) >= Occurrences(text, Id10)

\* The longest key of t that occurs in s at position i, <<>> if none does.
KeyAt(s, i, t) ==
    LET ks == {k \in DOMAIN t : MatchAt(s, i, k)}
    IN  IF ks = {} THEN <<>> ELSE CHOOSE k \in ks : \A m \in ks : Len(m) <= Len(k)

\* s with each occurrence of a key of t replaced once by the key's value.
RECURSIVE ReplacedOnce(_, _, _)
ReplacedOnce(s, i, t) ==
    IF i > Len(s) THEN <<>>
    ELSE IF KeyAt(s, i, t) # <<>>
         THEN t[KeyAt(s, i, t)] \o ReplacedOnce(s, i + Len(KeyAt(s, i, t)), t)
         ELSE <<s[i]>> \o ReplacedOnce(s, i + 1, t)

\* C7: with a remap table of two or more entries, remapTextReferences returns
\* the same text whatever the order in which the table is visited, and that
\* text is the input with each occurrence of a key replaced once by its value.
C7_OrderIndependent ==
    (tpc = "returned" /\ Cardinality(DOMAIN table) >= 2) =>
        /\ \A o \in Orders(DOMAIN table) : remapTextReferences(text, table, o) = result
        /\ result = ReplacedOnce(text, 1, table)

\* The text fields of an issue.
Texts4(issue) ==
    <<issue.Description, issue.Design, issue.AcceptanceCriteria, issue.Notes>>

\* C8: when head and base of a region both hold id x and the base record is
\* the one remapped, the dependency edges and the free text of the region's
\* head-side records that mention x still read x in the output.
C8_HeadReferencesUntouched ==
    Applied =>
        \A x \in DOMAIN remapTable :
            (/\ DOMAIN remapTable = {x}
             /\ \E i \in HeadRecs : lines[i].issue.ID = x
             /\ \E i \in BaseRecs : lines[i].issue.ID = x) =>
                \A i \in HeadRecs : \A j \in OutOf(i) :
                    /\ \A k \in DOMAIN lines[i].issue.Dependencies :
                          lines[i].issue.Dependencies[k].DependsOnID = x =>
                              file[j].issue.Dependencies[k].DependsOnID = x
                    /\ Texts4(file[j].issue) = Texts4(lines[i].issue)

\* The input lines outside every region detectConflicts reported.
OutsideIdx ==
    {i \in DOMAIN lines :
        \A k \in DOMAIN conflicts : i < conflicts[k].LineStart \/ i > conflicts[k].LineEnd}

\* C9: every input line outside every reported region is in the output, once,
\* in its original relative order, and is byte-identical unless it parses as
\* a record that the remap table changes.
C9_PassThrough ==
    Applied =>
        /\ \A i \in OutsideIdx : Cardinality(OutOf(i)) = 1
        /\ \A j, k \in DOMAIN ap.resolvedFrom :
              (j < k /\ ap.resolvedFrom[j] \in OutsideIdx /\ ap.resolvedFrom[k] \in OutsideIdx)
                  => ap.resolvedFrom[j] < ap.resolvedFrom[k]
        /\ \A i \in OutsideIdx : \A j \in OutOf(i) :
              \/ file[j] = lines[i]
              \/ Parses(lines[i]) /\ file[j].issue # lines[i].issue

\* A line that is no conflict marker.
Plain(line) == line.kind \in {"rec", "junk", "blank"}

\* ls is one plain line, an open marker, plain lines with one divider among
\* them, a close marker and one plain line.
RoundTripShape(ls) ==
    /\ Len(ls) >= 5
    /\ Plain(ls[1]) /\ ls[2].kind = "open"
    /\ ls[Len(ls) - 1].kind = "close" /\ Plain(ls[Len(ls)])
    /\ Cardinality({i \in 3..(Len(ls) - 2) : ls[i].kind = "div"}) = 1
    /\ \A i \in 3..(Len(ls) - 2) : ls[i].kind = "div" \/ Plain(ls[i])

DividerOf(ls) == CHOOSE i \in 3..(Len(ls) - 2) : ls[i].kind = "div"

\* The numbers of the lines a..b of ls that parse as an issue, in order.
RECURSIVE RecSeq(_, _, _)
RecSeq(ls, a, b) ==
    IF a > b THEN <<>>
    ELSE (IF Parses(ls[a]) THEN <<a>> ELSE <<>>) \o RecSeq(ls, a + 1, b)

HeadSeq(ls) == RecSeq(ls, 3, DividerOf(ls) - 1)
BaseSeq(ls) == RecSeq(ls, DividerOf(ls) + 1, Len(ls) - 2)

\* C10: for a sealed region between two untouched lines, the output is the
\* line before, the region's head records in their order, its base records in
\* their order, each with its id replaced if remapped, and the line after;
\* nothing of the region is emitted before the close marker is read.
C10_RoundTripPlacement ==
    (pc \in {"lines", "done"} /\ RoundTripShape(lines)) =>
        LET n == Len(lines)
            region == HeadSeq(lines) \o BaseSeq(lines)
        IN  /\ lineIdx = 1 => ap.resolvedFrom = <<>>
            /\ (1 < lineIdx /\ lineIdx < n) => ap.resolvedFrom = <<1>>
            /\ lineIdx = n => ap.resolvedFrom = <<1>> \o region
            /\ lineIdx > n =>
                  /\ ap.resolvedFrom = <<1>> \o region \o <<n>>
                  /\ \A j \in DOMAIN ap.resolved :
                        (\E b \in DOMAIN BaseSeq(lines) : BaseSeq(lines)[b] = ap.resolvedFrom[j])
                            => ap.resolved[j].issue.ID
                                   = TargetAsClaimed(lines[ap.resolvedFrom[j]].issue.ID)
            /\ Applied => file = ap.resolved

\* C10's case: a resolved file of that shape with two head records and two
\* base records, one of them remapped.
C10_Witness ==
    /\ Applied /\ RoundTripShape(lines)
    /\ Len(HeadSeq(lines)) = 2 /\ Len(BaseSeq(lines)) = 2
    /\ \E b \in DOMAIN BaseSeq(lines) :
          /\ lines[BaseSeq(lines)[b]].issue.ID \in DOMAIN remapTable
          /\ \E j \in OutOf(BaseSeq(lines)[b]) :
                file[j].issue.ID # lines[BaseSeq(lines)[b]].issue.ID

\* A line that begins, trimmed, with one of the three markers.
MarkerLine(line) == line.kind \in {"open", "div", "divx", "close"}

\* C11: no line of a file written by applyResolutions begins with the open,
\* divider or close marker; detectConflicts reports no region on it; and the
\* command entered again on it finds no conflict and leaves it as it is.
C11_NoMarkerSurvives ==
    /\ writes <= 1
    /\ writes = 1 =>
          /\ \A j \in DOMAIN file : ~MarkerLine(file[j])
          /\ detectConflicts(file) = <<>>
    /\ (writes = 1 /\ pc = "done") =>
          \/ outcome = "resolved"
          \/ outcome = "no_conflicts" /\ conflicts = <<>> /\ file = fileBefore

\* C11's case: the second run has ended on the output of a first run whose
\* input had a sealed region with a divider, and markers outside it.
C11_Witness ==
    /\ pc = "done" /\ outcome = "no_conflicts" /\ writes = 1
    /\ \E i \in DOMAIN lines : lines[i].kind = "divx" /\ ~ScanPrefix(lines, i - 1).inConflict
    /\ \E i \in DOMAIN lines : lines[i].kind = "close" /\ ~ScanPrefix(lines, i - 1).inConflict
    /\ \E i \in DOMAIN lines : Parses(lines[i]) /\ ScanPrefix(lines, i - 1).inConflict
    /\ \E j \in DOMAIN file : Parses(file[j])

\* C12: on a file in which no line begins with a marker, detectConflicts
\* reports no region, the command ends without a write whatever its flags,
\* and applyResolutions called with no resolutions writes the content back
\* byte for byte, blank lines and the last newline included.
C12_NoOpIdempotence ==
    /\ pc = "detect" => detectConflicts(file) = <<>>
    /\ pc # "resolve"
    /\ (pc = "done" /\ outcome # "resolved") =>
          outcome = "no_conflicts" /\ conflicts = <<>> /\ writes = 0 /\ file = fileBefore
    /\ pc \in {"apply", "lines"} => writes = 0 /\ file = fileBefore
    /\ (pc = "done" /\ outcome = "resolved") =>
          /\ writes = 1 /\ remapTable = NoTable
          /\ file = fileBefore
          /\ \A j \in DOMAIN file : file[j].raw

\* C12's case: applyResolutions has written back a file of records that
\* mention other issues, with a blank line inside and a newline at the end.
C12_Witness ==
    /\ pc = "done" /\ outcome = "resolved" /\ Len(fileBefore) >= 4
    /\ fileBefore[Len(fileBefore)] = BlankLine
    /\ \E i \in 2..(Len(fileBefore) - 1) : fileBefore[i] = BlankLine
    /\ \E i \in DOMAIN fileBefore : fileBefore[i] = RecLine(I2)

\* The ids resolveConflictsMechanical has collected from the head sides.
HeadIdsOf(cs) == {HeadIssuesOf(cs)[i].ID : i \in DOMAIN HeadIssuesOf(cs)}

\* C13: when a getNextAvailableID call fails, the first or a later one, Run
\* ends with the error and no resolution list, applyResolutions has not been
\* entered, nothing was written and the file is as it was before the command.
C13_AllocationFailure ==
    outcome = "resolve_error" =>
        /\ pc = "done"
        /\ resolutions = <<>>
        /\ lines = <<>> /\ remapTable = NoTable /\ lineIdx = 0 /\ ap = ApplyInit
        /\ writes = 0
        /\ file = fileBefore

\* C13's case: the run failed in resolveConflictsMechanical on a region whose
\* first base record was kept before the second one collided.
C13_Witness ==
    /\ outcome = "resolve_error"
    /\ \E k \in DOMAIN conflicts :
          /\ Len(conflicts[k].BaseIssues) = 2
          /\ conflicts[k].BaseIssues[1].ID \notin HeadIdsOf(conflicts)
          /\ conflicts[k].BaseIssues[2].ID \in HeadIdsOf(conflicts)

\* C14: os.WriteFile runs at most once in a run, and only when detection
\* found conflicts, every one of their records has its resolution and the
\* loop of applyResolutions has gone through every line read; when the file
\* cannot be opened in detectConflicts or read in applyResolutions, nothing is
\* written and the file is as it was.
C14_ReadsPrecedeWrite ==
    /\ writes <= 1
    /\ writes = 0 => file = fileBefore
    /\ writes = 1 =>
          /\ pc = "done" /\ outcome \in {"resolved", "apply_error"}
          /\ conflicts = detectConflicts(fileBefore) /\ conflicts # <<>>
          /\ Len(resolutions) = Len(HeadIssuesOf(conflicts)) + Len(BaseIssuesOf(conflicts))
          /\ lines = fileBefore /\ lineIdx = Len(lines) + 1
          /\ outcome = "resolved" => file = JoinLines(ap.resolved)
    /\ outcome = "detect_error" => writes = 0 /\ file = fileBefore
    /\ (outcome = "apply_error" /\ lines = <<>>) => writes = 0 /\ file = fileBefore

\* C14's case: os.ReadFile failed in applyResolutions after a resolution
\* with a remap was made.
C14_Witness ==
    /\ outcome = "apply_error" /\ lines = <<>>
    /\ RemapIdx # {}

\* C15: the command writes the file only when --auto is set and --dry-run is
\* not; with neither flag, and with --dry-run alone or beside --auto, the file
\* is never written, whatever conflicts it holds.
C15_ModeFrame ==
    /\ (~auto \/ dryRun) =>
          /\ writes = 0 /\ file = fileBefore
          /\ pc \in {"detect", "resolve", "done"}
          /\ pc = "done" =>
                outcome \in {"no_conflicts", "detected", "dry_run", "detect_error",
                             "resolve_error"}
    /\ (pc = "done" /\ outcome = "detected") => ~auto /\ ~dryRun /\ resolutions = <<>>
    /\ (pc = "done" /\ outcome = "dry_run") => dryRun
    /\ writes = 1 => auto /\ ~dryRun

\* C15's case: --dry-run beside --auto ended on a file whose resolution has a
\* remap, and the file was not written.
C15_Witness ==
    /\ pc = "done" /\ outcome = "dry_run" /\ auto /\ dryRun
    /\ RemapIdx # {}
    /\ writes = 0

\* The lines detectConflicts scanned in this run, once it has returned.
Scanned == ScannerLines(fileBefore)

\* detectConflicts has returned in this run.
Detected == pc # "detect" /\ outcome # "detect_error"

\* detectConflicts has just returned: Run is about to resolve, or has ended
\* on what detectConflicts found.
JustDetected ==
    \/ pc = "resolve"
    \/ pc = "done" /\ outcome \in {"no_conflicts", "detected"}

\* C16: while the scanner is on the head side of a region, only a line that
\* is exactly ======= moves it to the base side; a line that begins with
\* ======= and goes on leaves it on the head side.
C16_ExactDivider ==
    Detected =>
        \A n \in DOMAIN Scanned :
            (/\ ScanPrefix(Scanned, n - 1).inConflict /\ ScanPrefix(Scanned, n - 1).inHead
             /\ ScanPrefix(Scanned, n).inConflict /\ ~ScanPrefix(Scanned, n).inHead)
                => Scanned[n].kind = "div"

\* C17: detectConflicts adds a region exactly when it reads a close marker
\* inside a region, with that line as LineEnd, and is outside afterwards; a
\* close marker or a divider read outside a region changes nothing but the
\* line count.
C17_Sealing ==
    JustDetected =>
        /\ conflicts = ScanPrefix(Scanned, Len(Scanned)).conflicts
        /\ \A n \in DOMAIN Scanned :
              LET s == ScanPrefix(Scanned, n - 1)
                  s2 == ScanPrefix(Scanned, n)
              IN  /\ IF IsClose(Scanned[n]) /\ s.inConflict
                     THEN /\ s2.conflicts = Append(s.conflicts, [s.current[1] EXCEPT !.LineEnd = n])
                          /\ ~s2.inConflict /\ s2.current = <<>>
                     ELSE s2.conflicts = s.conflicts
                  /\ ((IsClose(Scanned[n]) \/ IsDivider(Scanned[n])) /\ ~s.inConflict)
                        => s2 = [s EXCEPT !.lineNum = n]

\* C17's case: the scan sealed a region and then read a close marker and a
\* divider outside any region.
C17_Witness ==
    /\ JustDetected /\ Len(conflicts) = 1
    /\ \E n \in DOMAIN Scanned :
          /\ IsClose(Scanned[n]) /\ ~ScanPrefix(Scanned, n - 1).inConflict
          /\ Len(ScanPrefix(Scanned, n - 1).conflicts) = 1
    /\ \E n \in DOMAIN Scanned :
          /\ IsDivider(Scanned[n]) /\ ~ScanPrefix(Scanned, n - 1).inConflict
          /\ Len(ScanPrefix(Scanned, n - 1).conflicts) = 1

\* The issues on the lines a..b of ls, in order.
IssuesOn(ls, a, b) == [k \in DOMAIN RecSeq(ls, a, b) |-> ls[RecSeq(ls, a, b)[k]].issue]

\* No line strictly inside block c is exactly =======.
NoDivider(c) == \A i \in (c.LineStart + 1)..(c.LineEnd - 1) : Scanned[i].kind # "div"

\* C18: a reported region with no line that is exactly ======= between its
\* open and close markers has every record parsed between them in its head
\* set and an empty base set, and when no region has such a line the
\* resolver emits no Remap.
C18_MissingDivider ==
    /\ Detected =>
          \A k \in DOMAIN conflicts :
              NoDivider(conflicts[k]) =>
                  /\ conflicts[k].BaseIssues = <<>>
                  /\ conflicts[k].HeadIssues
                        = IssuesOn(Scanned, conflicts[k].LineStart + 1, conflicts[k].LineEnd - 1)
    /\ (pc = "apply" /\ \A k \in DOMAIN conflicts : NoDivider(conflicts[k])) => RemapIdx = {}

\* No base record's id is claimed when the resolver comes to it: it is the id
\* of no head record and of no earlier base record.
NoBaseClaimed ==
    LET base == BaseIssuesOf(conflicts)
    IN  \A b \in DOMAIN base :
            /\ base[b].ID \notin HeadIdsOf(conflicts)
            /\ \A a \in 1..(b - 1) : base[a].ID # base[b].ID

\* C19: when no base record's id is claimed as the resolver comes to it,
\* every resolution is a Keep, getNextAvailableID is not called, the remap
\* table is empty and every record of the regions is in the output as it was
\* in the input, under its own id.
C19_NoCollisionNoRemap ==
    (pc \in {"apply", "lines", "done"} /\ outcome \in {"none", "resolved"} /\ NoBaseClaimed) =>
        /\ Len(resolutions) = Len(HeadIssuesOf(conflicts)) + Len(BaseIssuesOf(conflicts))
        /\ \A r \in DOMAIN resolutions : resolutions[r].Action = "keep"
        /\ ~CallsStore(conflicts, store)
        /\ pc # "apply" => remapTable = NoTable
        /\ Applied =>
              \A i \in HeadRecs \cup BaseRecs :
                  \E j \in OutOf(i) : file[j].issue = lines[i].issue

\* C19's case: the file with bd-1 on the head side and bd-2 on the base side
\* is resolved, and the output is the two records.
C19_Witness ==
    /\ Applied
    /\ lines = <<OpenLine, RecLine(I1), DivLine, RecLine(I2), CloseLine>>
    /\ file = <<Marshal(I1), Marshal(I2)>>

\* Exactly one of --dry-run and --apply is requested, and --yes only with
\* --apply.
ModeAllowed(d, a, y) == (d # a) /\ (y => a)

\* C20: validateHookMigrationMode returns no error exactly when one and only
\* one of --dry-run and --apply is requested and --yes comes only with
\* --apply; then the mode it returns holds the three requested flags, and
\* otherwise the command ends with the error.
C20_ModeValidation ==
    /\ \A d, a, y \in BOOLEAN :
          /\ validateHookMigrationMode(d, a, y).err = "nil" <=> ModeAllowed(d, a, y)
          /\ ModeAllowed(d, a, y) =>
                validateHookMigrationMode(d, a, y).mode = hookMigrationMode(d, a, y)
    /\ hpc \notin {"idle", "validate"} =>
          IF ModeAllowed(requestedDryRun, requestedApply, requestedYes)
          THEN /\ hookOutcome # "fatal_mode"
               /\ mode = hookMigrationMode(requestedDryRun, requestedApply, requestedYes)
          ELSE hpc = "done" /\ hookOutcome = "fatal_mode" /\ mode = ZeroMode

\* C20's case: --apply --yes was validated and the command went on with
\* that mode.
C20_Witness ==
    /\ hpc = "plan"
    /\ requestedApply /\ requestedYes /\ ~requestedDryRun
    /\ mode = hookMigrationMode(FALSE, TRUE, TRUE)

\* --yes is given, or the session is interactive and --json is not requested.
ConsentAllowed(y, interactive, json) == y \/ (interactive /\ ~json)

\* C21: validateHookMigrationApplyConsent returns no error exactly when --yes
\* is given, or stdin is a terminal and --json is not requested; --json
\* without --yes and a non-interactive session without --yes are rejected,
\* and the command then ends before it applies anything.
C21_ApplyConsent ==
    /\ \A y, i, j \in BOOLEAN :
          /\ validateHookMigrationApplyConsent(y, i, j) = "nil" <=> ConsentAllowed(y, i, j)
          /\ (~y /\ j) =>
                validateHookMigrationApplyConsent(y, i, j) = "--json with --apply requires --yes"
          /\ (~y /\ ~j /\ ~i) =>
                validateHookMigrationApplyConsent(y, i, j)
                    = "--apply requires confirmation; rerun with --yes in non-interactive mode"
    /\ hookOutcome = "fatal_consent" =>
          /\ hpc = "done" /\ mode.RequestedApply /\ operationCount(execPlan) > 0
          /\ ~ConsentAllowed(requestedYes, isTerminal, jsonOutput)
    /\ (hpc \in {"output", "maybe_apply"} /\ mode.RequestedApply
            /\ operationCount(execPlan) > 0) =>
          ConsentAllowed(requestedYes, isTerminal, jsonOutput)

\* C21's case: --apply --json without --yes was rejected on a terminal, with
\* an operation planned.
C21_Witness ==
    /\ hpc = "done" /\ hookOutcome = "fatal_consent"
    /\ jsonOutput /\ isTerminal /\ ~requestedYes
    /\ Len(execPlan.WriteOps) > 0


\* A hook of the plan that blocks: its marker is broken, it could not be
\* read, or it is not one to leave alone and has no write source.
BlocksApply(hook) ==
    \/ hook.State \in {"marker_broken", "read_error"}
    \/ /\ hook.State \notin {"marker_managed", "unmanaged_custom", "missing_no_artifacts"}
       /\ chooseHookMigrationWriteSource(hook).kind = ""

PlanBlocked == \E k \in DOMAIN plan : BlocksApply(plan[k])

\* C22: when a hook of the plan blocks, the execution plan has a blocking
\* error, and applyHookMigrationExecution returns an error with an empty
\* summary, having written no hook file and retired no sidecar, whatever
\* valid operations the other hooks of the plan have.
C22_BlockingBlocksApply ==
    /\ PlanBlocked <=> Len(execPlan.BlockingErrors) > 0
    /\ PlanBlocked =>
          /\ fs = fsBefore
          /\ apc \in {"blocking", "done"}
          /\ apc = "done" => applyErr = "hook migration blocked" /\ summary = ZeroSummary

C22_Witness ==
    /\ apc = "done" /\ PlanBlocked
    /\ Len(execPlan.WriteOps) > 0 /\ Len(execPlan.RetireOps) > 0
    /\ \A i \in DOMAIN execPlan.RetireOps :
          /\ pathExists(fs, execPlan.RetireOps[i].SourcePath)
          /\ ~pathExists(fs, execPlan.RetireOps[i].DestinationPath)

\* A write operation whose source file cannot be read.
SourceUnreadable(files, op) ==
    op.SourceKind # "template" /\ ~files[op.SourcePath].exists

\* A retire operation whose destination holds other content than its source.
DestinationDiffers(files, op) ==
    /\ files[op.SourcePath].exists /\ files[op.DestinationPath].exists
    /\ files[op.SourcePath] # files[op.DestinationPath]

ValidationFails ==
    \/ \E i \in DOMAIN execPlan.WriteOps : SourceUnreadable(fsBefore, execPlan.WriteOps[i])
    \/ \E i \in DOMAIN execPlan.RetireOps : DestinationDiffers(fsBefore, execPlan.RetireOps[i])

\* C23: once applyHookMigrationExecution is at its writes or has changed a
\* file, every write source was read and rendered and no retire operation
\* collides; when a source cannot be read or a retire destination holds
\* other content than its source, the call returns an error with an empty
\* summary and the files are as they were.
C23_ValidationPrecedesWrites ==
    /\ (apc \in {"write", "retire"} \/ fs # fsBefore) =>
          /\ Len(preparedWrites) = Len(execPlan.WriteOps)
          /\ \A i \in DOMAIN execPlan.WriteOps :
                /\ ~SourceUnreadable(fsBefore, execPlan.WriteOps[i])
                /\ preparedWrites[i].Path = execPlan.WriteOps[i].HookPath
                /\ preparedWrites[i].Content.exists
                /\ preparedWrites[i].Content.section = execPlan.WriteOps[i].HookName
          /\ \A i \in DOMAIN execPlan.RetireOps :
                ~DestinationDiffers(fsBefore, execPlan.RetireOps[i])
    /\ ValidationFails =>
          /\ fs = fsBefore
          /\ apc \notin {"write", "retire"}
          /\ apc = "done" => applyErr \notin {"nil", "none"} /\ summary = ZeroSummary

C23_Witness ==
    /\ apc = "done" /\ applyErr = "artifact collision"
    /\ Len(execPlan.WriteOps) = 2
    /\ ~DestinationDiffers(fs, execPlan.RetireOps[1])
    /\ DestinationDiffers(fs, execPlan.RetireOps[Len(execPlan.RetireOps)])
    /\ fs[execPlan.RetireOps[1].SourcePath].exists

\* The hooks of the plan that have both sidecars in a legacy or missing state.
HasBoth(hook) ==
    /\ hook.State \in {"legacy_with_both_sidecars", "missing_with_both_sidecars"}
    /\ hook.HasOldSidecar /\ hook.HasBackupSidecar

WriteOpsFor(hook) ==
    {i \in DOMAIN execPlan.WriteOps : execPlan.WriteOps[i].HookName = hook.Name}

RetiresOf(hook) ==
    {execPlan.RetireOps[i].SourcePath :
        i \in {j \in DOMAIN execPlan.RetireOps : execPlan.RetireOps[j].HookName = hook.Name}}

\* C24: for a hook with both sidecars in a legacy or missing state, the one
\* write operation of an unblocked hook reads the .old sidecar, the retire
\* operations are those of .old and .backup, each to its .migrated path, and
\* after a successful apply on files that had both sidecars the hook file
\* holds the content of .old, .old and .backup are gone and .old.migrated and
\* .backup.migrated hold what the sidecars held.
C24_SidecarPreference ==
    \A k \in DOMAIN plan :
        LET hook == plan[k] IN
        HasBoth(hook) =>
            /\ Cardinality(WriteOpsFor(hook)) = 1
            /\ \A i \in WriteOpsFor(hook) :
                  /\ execPlan.WriteOps[i].SourceKind = "old_sidecar"
                  /\ execPlan.WriteOps[i].SourcePath = OldPath(hook)
                  /\ execPlan.WriteOps[i].SourcePath # BackupPath(hook)
            /\ RetiresOf(hook) = {OldPath(hook), BackupPath(hook)}
            /\ \A i \in DOMAIN execPlan.RetireOps :
                  execPlan.RetireOps[i].DestinationPath = Migrated(execPlan.RetireOps[i].SourcePath)
            /\ ( /\ apc = "done" /\ applyErr = "nil"
                 /\ fsBefore[OldPath(hook)].exists /\ fsBefore[BackupPath(hook)].exists ) =>
                  /\ ~fs[OldPath(hook)].exists /\ ~fs[BackupPath(hook)].exists
                  /\ fs[Migrated(OldPath(hook))] = fsBefore[OldPath(hook)]
                  /\ fs[Migrated(BackupPath(hook))] = fsBefore[BackupPath(hook)]
                  /\ fs[hook.HookPath].exists
                  /\ fs[hook.HookPath].body = fsBefore[OldPath(hook)].body
                  /\ fs[hook.HookPath].section = hook.Name

C24_Witness ==
    /\ apc = "done" /\ applyErr = "nil"
    /\ Len(plan) = 2 /\ HasBoth(plan[1]) /\ HasBoth(plan[2])
    /\ plan[1].State # plan[2].State
    /\ \A k \in 1..2 :
          /\ fsBefore[OldPath(plan[k])].exists /\ fsBefore[BackupPath(plan[k])].exists
          /\ ~fsBefore[Migrated(OldPath(plan[k]))].exists
          /\ fs[Migrated(BackupPath(plan[k]))].exists

\* resolveConflictsMechanical has returned its resolutions in this run.
Resolved == pc \in {"apply", "lines"} \/ (pc = "done" /\ outcome = "resolved")

\* The resolution of the b-th base record, after those of the head records.
BaseRes(b) == resolutions[Len(HeadIssuesOf(conflicts)) + b]

\* The ids claimed when the resolver comes to the b-th base record: the head
\* ids of all regions, the ids of the base records kept before it and the
\* fresh ids allocated before it.
ClaimedAt(b) ==
    HeadIdsOf(conflicts)
        \cup {BaseIssuesOf(conflicts)[a].ID : a \in {x \in 1..(b - 1) : BaseRes(x).Action = "keep"}}
        \cup {BaseRes(a).NewID : a \in {x \in 1..(b - 1) : BaseRes(x).Action = "remap"}}

\* C25: every head record is resolved as a Keep of its id; the b-th base
\* record, in region order and then in the order inside its region, is
\* resolved as a Remap of its id exactly when that id is claimed as the
\* resolver comes to it, and as a Keep of its id otherwise.
C25_BasePolicy ==
    Resolved =>
        LET head == HeadIssuesOf(conflicts)
            base == BaseIssuesOf(conflicts)
        IN  /\ Len(resolutions) = Len(head) + Len(base)
            /\ \A h \in DOMAIN head :
                  /\ resolutions[h].Action = "keep"
                  /\ resolutions[h].IssueID = head[h].ID
            /\ \A b \in DOMAIN base :
                  IF base[b].ID \in ClaimedAt(b)
                  THEN BaseRes(b).Action = "remap" /\ BaseRes(b).OldID = base[b].ID
                  ELSE BaseRes(b).Action = "keep" /\ BaseRes(b).IssueID = base[b].ID

\* C25's case: a base record collides with a head record and is given bd-10,
\* and the base record bd-10 after it is a Remap because of that allocation.
C25_Witness ==
    /\ pc = "apply"
    /\ Len(BaseIssuesOf(conflicts)) = 2
    /\ BaseRes(1).Action = "remap" /\ BaseRes(1).NewID = Id10
    /\ BaseIssuesOf(conflicts)[2].ID = Id10 /\ Id10 \notin HeadIdsOf(conflicts)
    /\ BaseRes(2).Action = "remap"

\* The id a resolution is about.
ResId(res) == IF res.Action = "keep" THEN res.IssueID ELSE res.OldID

\* How many records the regions before the k-th have on one side.
RECURSIVE HeadsBefore(_)
HeadsBefore(k) == IF k <= 1 THEN 0 ELSE HeadsBefore(k - 1) + Len(conflicts[k - 1].HeadIssues)

RECURSIVE BasesBefore(_)
BasesBefore(k) == IF k <= 1 THEN 0 ELSE BasesBefore(k - 1) + Len(conflicts[k - 1].BaseIssues)

\* C26: the resolutions are as many as the records of the regions; the j-th
\* head record of the k-th region has its resolution after those of the head
\* records of the regions before and of the head records before it in the
\* region, the j-th base record of the k-th region likewise after all the
\* head resolutions, and so every head resolution precedes every base
\* resolution.
C26_ResolutionShape ==
    Resolved =>
        LET nh == HeadsBefore(Len(conflicts) + 1)
            nb == BasesBefore(Len(conflicts) + 1)
        IN  /\ Len(resolutions) = nh + nb
            /\ \A k \in DOMAIN conflicts :
                  /\ \A j \in DOMAIN conflicts[k].HeadIssues :
                        /\ ResId(resolutions[HeadsBefore(k) + j]) = conflicts[k].HeadIssues[j].ID
                        /\ resolutions[HeadsBefore(k) + j].Reason = "HEAD version"
                  /\ \A j \in DOMAIN conflicts[k].BaseIssues :
                        /\ ResId(resolutions[nh + BasesBefore(k) + j])
                               = conflicts[k].BaseIssues[j].ID
                        /\ resolutions[nh + BasesBefore(k) + j].Reason # "HEAD version"

\* C26's case: two regions with a record on each side of each, the head
\* records bd-1 and bd-10 and the base records bd-10 and bd-1.
C26_Witness ==
    /\ pc = "apply" /\ Len(conflicts) = 2
    /\ \A k \in 1..2 : Len(conflicts[k].HeadIssues) = 1 /\ Len(conflicts[k].BaseIssues) = 1
    /\ conflicts[1].HeadIssues[1].ID = Id1 /\ conflicts[2].HeadIssues[1].ID = Id10
    /\ conflicts[1].BaseIssues[1].ID = Id10 /\ conflicts[2].BaseIssues[1].ID = Id1
    /\ Len(resolutions) = 4

\* The first Remap of the resolution list for the old id.
FirstRemap(old) ==
    CHOOSE i \in DOMAIN resolutions :
        /\ resolutions[i].Action = "remap" /\ resolutions[i].OldID = old
        /\ \A j \in 1..(i - 1) :
              ~(resolutions[j].Action = "remap" /\ resolutions[j].OldID = old)

IdNum(id) == ScanInt(LastPart(id))

\* How many Remap resolutions come before the r-th resolution.
RemapsBefore(r) == Cardinality({q \in RemapIdx : q < r})

\* How many times the run has queried the store: getNextAvailableID calls
\* store.SearchIssues once each time it is called.
StoreQueries == NumCalls(conflicts, store)

\* C28: a run that allocates two or more fresh ids gives consecutive ids,
\* the first past the store's high-water mark, and queries the store once.
C28_SingleQuery ==
    (Resolved /\ Cardinality(RemapIdx) >= 2) =>
        /\ \A r \in RemapIdx :
              IdNum(resolutions[r].NewID) = MaxNum(store) + 1 + RemapsBefore(r)
        /\ StoreQueries = 1

\* C29: in the list detectConflicts returns, every region starts before it
\* ends and after the region before it has ended; LineStart and LineEnd are
\* the numbers, counted from 1 with the blank lines, of the lines that hold
\* the region's open and close markers; and the head records followed by the
\* base records are the records between the two markers in their order, the
\* head records up to some line and the base records after it.
C29_RegionInvariants ==
    JustDetected =>
        \A k \in DOMAIN conflicts :
            LET c == conflicts[k] IN
            /\ c.LineStart < c.LineEnd
            /\ k > 1 => c.LineStart > conflicts[k - 1].LineEnd
            /\ c.LineStart \in DOMAIN Scanned /\ c.LineEnd \in DOMAIN Scanned
            /\ IsOpen(Scanned[c.LineStart]) /\ IsClose(Scanned[c.LineEnd])
            /\ \E m \in c.LineStart..(c.LineEnd - 1) :
                  /\ c.HeadIssues = IssuesOn(Scanned, c.LineStart + 1, m)
                  /\ c.BaseIssues = IssuesOn(Scanned, m + 1, c.LineEnd - 1)

\* C29's case: two regions one after the other, after a blank line.
C29_Witness ==
    /\ JustDetected /\ Len(conflicts) = 2
    /\ Scanned[1] = BlankLine /\ conflicts[1].LineStart = 2
    /\ conflicts[2].LineStart = conflicts[1].LineEnd + 1

\* The scanner's locals after the lines applyResolutions has been through:
\* the scanner does not see the empty last line strings.Split makes of a
\* final newline.
ScanAt(n) == ScanPrefix(Scanned, IF n > Len(Scanned) THEN Len(Scanned) ELSE n)

\* The head records followed by the base records of each block, in block
\* order.
RECURSIVE HeadThenBase(_)
HeadThenBase(cs) ==
    IF cs = <<>> THEN <<>>
    ELSE Head(cs).HeadIssues \o Head(cs).BaseIssues \o HeadThenBase(Tail(cs))

\* The issues, as they were read, of the lines whose numbers are in from.
IssuesFrom(from) == [k \in DOMAIN from |-> lines[from[k]].issue]

\* The entries of from that are numbers of lines read inside a region.
RECURSIVE ReadInside(_)
ReadInside(from) ==
    IF from = <<>> THEN <<>>
    ELSE (IF ScanAt(Head(from) - 1).inConflict THEN <<Head(from)>> ELSE <<>>)
            \o ReadInside(Tail(from))

\* C30: after each line, applyResolutions is inside a conflict exactly when
\* detectConflicts is after the same line; the records it holds back are
\* the head and then the base records of the scanner's open region; and the
\* records it has emitted at the close markers so far are, in order, the
\* head and then the base records of the regions the scanner has sealed so
\* far, so that each close marker emits those of the region sealed at it.
C30_Lockstep ==
    (pc = "lines" /\ lines = fileBefore) =>
        LET sc == ScanAt(lineIdx - 1)
        IN  /\ ap.inConflict = sc.inConflict
            /\ Len(ap.conflictLines) = Len(ap.conflictFrom)
            /\ ap.inConflict =>
                  IssuesFrom(ap.conflictFrom)
                      = sc.current[1].HeadIssues \o sc.current[1].BaseIssues
            /\ IssuesFrom(ReadInside(ap.resolvedFrom)) = HeadThenBase(sc.conflicts)

\* C30's case: a region opened twice and closed, with a record after each
\* open marker, has been walked to its close marker.
C30_Witness ==
    /\ pc = "lines" /\ lineIdx = 6
    /\ IsOpen(lines[1]) /\ Parses(lines[2]) /\ IsOpen(lines[3]) /\ Parses(lines[4])
    /\ IsClose(lines[5])
    /\ Len(ap.resolved) = 1

\* How many lines a..b of ls are records.
RecCount(ls, a, b) == Cardinality({i \in a..b : i \in DOMAIN ls /\ ls[i].kind = "rec"})

\* The places of resolved and of the buffer that were made from line i.
PlacesOf(i) ==
    {<<"resolved", j>> : j \in {x \in DOMAIN ap.resolvedFrom : ap.resolvedFrom[x] = i}}
        \cup {<<"buffer", j>> : j \in {x \in DOMAIN ap.conflictFrom : ap.conflictFrom[x] = i}}

\* C31: a region's head and base sets hold as many issues as there are
\* record lines between its markers, so text that does not parse and blank
\* lines are in neither; in applyResolutions a line of text that does not
\* parse, once read, is nowhere in the output when it was read inside a
\* region and is in the output once, as it was, when it was read outside; a
\* blank line read inside a region is nowhere in the output; and neither
\* function ends with an error because of such a line.
C31_ParseFailuresNotFatal ==
    /\ JustDetected =>
          \A k \in DOMAIN conflicts :
              Len(conflicts[k].HeadIssues) + Len(conflicts[k].BaseIssues)
                  = RecCount(Scanned, conflicts[k].LineStart, conflicts[k].LineEnd)
    /\ (pc = "lines" /\ lines = fileBefore) =>
          \A i \in 1..(lineIdx - 1) :
              /\ (lines[i].kind = "junk" /\ ScanAt(i - 1).inConflict) => PlacesOf(i) = {}
              /\ (lines[i].kind = "junk" /\ ~ScanAt(i - 1).inConflict) =>
                    /\ Cardinality(PlacesOf(i)) = 1
                    /\ \A p \in PlacesOf(i) : p[1] = "resolved" /\ ap.resolved[p[2]] = lines[i]
              /\ (lines[i].kind = "blank" /\ ScanAt(i - 1).inConflict) => PlacesOf(i) = {}
    /\ outcome \notin {"detect_error", "resolve_error", "apply_error"}

\* C31's case: a region that holds text that does not parse and a blank
\* line, followed by text that does not parse, is resolved to that last line.
C31_Witness ==
    /\ Applied
    /\ lines = <<OpenLine, JunkLine, BlankLine, CloseLine, JunkLine>>
    /\ file = <<JunkLine>>

\* C32: a record read outside every region is in the output once, with the
\* id and the title it had, its dependencies as many and of the same types;
\* when its line is not the input line, only dependency targets and the
\* description, design, acceptance criteria and notes differ.
C32_OutsideIdentity ==
    (pc = "lines" /\ lines = fileBefore) =>
        \A i \in 1..(lineIdx - 1) :
            (lines[i].kind = "rec" /\ ~ScanAt(i - 1).inConflict) =>
                /\ Cardinality(PlacesOf(i)) = 1
                /\ \A p \in PlacesOf(i) :
                      /\ p[1] = "resolved"
                      /\ LET out == ap.resolved[p[2]].issue
                             in == lines[i].issue
                         IN  /\ out.ID = in.ID
                             /\ out.Title = in.Title
                             /\ Len(out.Dependencies) = Len(in.Dependencies)
                             /\ \A e \in DOMAIN in.Dependencies :
                                   out.Dependencies[e].Type = in.Dependencies[e].Type

\* C32's case: bd-1 is remapped; the record bd-2 before the region, whose
\* title and description mention bd-1, is rewritten with its title kept, and
\* the record bd-1 after the region is written back as it was.
C32_Witness ==
    /\ Applied /\ Id1 \in DOMAIN remapTable
    /\ lines[1] = RecLine(I2) /\ lines[Len(lines)] = RecLine(I1)
    /\ file[1] # lines[1] /\ file[1].issue.Title = I2.Title
    /\ file[1].issue.Description # I2.Description
    /\ file[Len(file)] = RecLine(I1)

\* C33: when applyResolutions has written the file, every line of the input
\* that parses as a record is in the output exactly once, and the output has
\* as many records as the input has lines that parse.
C33_RecordConservation ==
    (Applied /\ lines = fileBefore) =>
        /\ \A i \in RecIdx(lines) : Cardinality(OutOf(i)) = 1
        /\ Cardinality(RecIdx(file)) = Cardinality(RecIdx(lines))

\* What C34 says of one retireHookSidecar call on the files before.
RetireAsClaimed(before, op) ==
    LET r == retireHookSidecar(before, op)
        src == op.SourcePath
        dst == op.DestinationPath
    IN  /\ \A p \in DOMAIN before : p \notin {src, dst} => r.fs[p] = before[p]
        /\ before[dst].exists => r.fs[dst] = before[dst]
        /\ IF ~before[src].exists
           THEN r.fs = before /\ r.retired = "" /\ r.err = "nil"
           ELSE IF before[dst].exists /\ before[dst] # before[src]
           THEN r.fs = before /\ r.retired = "" /\ r.err # "nil"
           ELSE IF before[dst].exists
           THEN /\ r.fs = [before EXCEPT ![src] = NoFile]
                /\ r.retired # "" /\ r.err = "nil"
           ELSE /\ r.fs = [before EXCEPT ![src] = NoFile, ![dst] = before[src]]
                /\ r.retired # "" /\ r.err = "nil"
        /\ (r.err = "nil" /\ r.retired # "") => ~r.fs[src].exists /\ r.fs[dst].exists

\* C34: on the files of every state, retireHookSidecar does for each retire
\* operation of the plan what the four cases say, and leaves an existing
\* destination as it is; and through a whole apply every .migrated file that
\* existed when it began holds what it held.
C34_RetireKeepsDestination ==
    /\ \A i \in DOMAIN execPlan.RetireOps : RetireAsClaimed(fs, execPlan.RetireOps[i])
    /\ \A i \in DOMAIN execPlan.RetireOps :
          fsBefore[execPlan.RetireOps[i].DestinationPath].exists =>
              fs[execPlan.RetireOps[i].DestinationPath]
                  = fsBefore[execPlan.RetireOps[i].DestinationPath]

\* C34's case: an apply has renamed a sidecar, removed one whose
\* destination held the same content and skipped one that was gone.
C34_Witness ==
    /\ apc = "done" /\ applyErr = "nil"
    /\ summary.SkippedArtifacts # <<>>
    /\ \E i, j \in DOMAIN summary.RetiredArtifacts :
          /\ summary.RetiredArtifacts[i][2] = "renamed"
          /\ summary.RetiredArtifacts[j][2] = "destination already existed"

\* The places of the execution plan that name the hook.
ListedIn(name) ==
    {<<"noop", i>> : i \in {x \in DOMAIN execPlan.NoopHooks : execPlan.NoopHooks[x] = name}}
        \cup {<<"blocking", i>> :
                 i \in {x \in DOMAIN execPlan.BlockingErrors : execPlan.BlockingErrors[x].Name = name}}
        \cup {<<"write", i>> :
                 i \in {x \in DOMAIN execPlan.WriteOps : execPlan.WriteOps[x].HookName = name}}

\* buildHookMigrationExecutionPlan has returned in this run.
PlanBuilt ==
    \/ hpc \in {"gate", "output", "maybe_apply"}
    \/ hpc = "done" /\ hookOutcome \notin {"fatal_mode", "fatal_plan"}

\* C35: every hook of the plan is named at exactly one place of the
\* execution plan, and the three lists hold nothing else; a hook in state
\* marker_managed, unmanaged_custom or missing_no_artifacts is among the
\* hooks left alone, one in state marker_broken or read_error among the
\* blocking errors; and every retire operation is of a hook that has a
\* write operation.
C35_PlanPartition ==
    PlanBuilt =>
    /\ Len(execPlan.NoopHooks) + Len(execPlan.BlockingErrors) + Len(execPlan.WriteOps)
          = Len(plan)
    /\ \A k \in DOMAIN plan :
          /\ Cardinality(ListedIn(plan[k].Name)) = 1
          /\ plan[k].State \in {"marker_managed", "unmanaged_custom", "missing_no_artifacts"}
                => \A p \in ListedIn(plan[k].Name) : p[1] = "noop"
          /\ plan[k].State \in {"marker_broken", "read_error"}
                => \A p \in ListedIn(plan[k].Name) : p[1] = "blocking"
    /\ \A i \in DOMAIN execPlan.RetireOps :
          \E w \in DOMAIN execPlan.WriteOps :
              execPlan.WriteOps[w].HookName = execPlan.RetireOps[i].HookName

\* C35's case: a plan of a hook with no write source that has a sidecar and
\* a hook to migrate with its sidecar.
C35_Witness ==
    /\ hpc = "gate" /\ Len(plan) = 2
    /\ plan[1].State = "unknown_state" /\ plan[1].HasOldSidecar
    /\ plan[2].State = "legacy_with_old_sidecar"
    /\ Len(execPlan.BlockingErrors) = 1 /\ Len(execPlan.WriteOps) = 1
    /\ Len(execPlan.RetireOps) = 1

\* C36: when applyHookMigrationExecution has returned without error, the
\* hooks written are those of the write operations in their order and
\* WrittenHookCount is their number, RetiredCount and SkippedCount add up to
\* the number of retire operations, and each count is the length of its
\* list; for a plan with no operation and no blocking error the files are
\* as they were and the three counts are 0.
C36_SummaryAccounting ==
    (apc = "done" /\ applyErr = "nil") =>
        /\ summary.WrittenHookCount = Len(execPlan.WriteOps)
        /\ summary.WrittenHooks
              = [i \in DOMAIN execPlan.WriteOps |-> execPlan.WriteOps[i].HookName]
        /\ summary.RetiredCount + summary.SkippedCount = Len(execPlan.RetireOps)
        /\ summary.WrittenHookCount = Len(summary.WrittenHooks)
        /\ summary.RetiredCount = Len(summary.RetiredArtifacts)
        /\ summary.SkippedCount = Len(summary.SkippedArtifacts)
        /\ (operationCount(execPlan) = 0 /\ Len(execPlan.BlockingErrors) = 0) =>
              /\ fs = fsBefore
              /\ summary.WrittenHookCount = 0 /\ summary.RetiredCount = 0
              /\ summary.SkippedCount = 0

\* C36's case: an apply that wrote two hooks, retired a sidecar and skipped
\* one has returned.
C36_Witness ==
    /\ apc = "done" /\ applyErr = "nil"
    /\ summary.WrittenHookCount = 2
    /\ summary.RetiredCount >= 1 /\ summary.SkippedCount >= 1

\* The user's answer at the prompt is empty, y or yes, in any case and
\* with blanks around it.
Affirmative == stdin \in {"", "y", "yes", "Y", " yes "}

\* The command is in applyHookMigrationExecution or has been through it.
ApplyEntered == apc # "idle"

\* C37: the files differ from those the command began with, or
\* applyHookMigrationExecution is entered, only when --apply was given
\* without --dry-run and either --yes was given or the command runs on a
\* terminal without --json and the user's answer is empty, y or yes; a
\* command that ended as canceled or as a preview has changed no file.
C37_NoChangeWithoutConsent ==
    /\ (fs # fsBefore \/ ApplyEntered) =>
          /\ requestedApply /\ ~requestedDryRun
          /\ operationCount(execPlan) > 0
          /\ requestedYes \/ (isTerminal /\ ~jsonOutput /\ Affirmative)
    /\ requestedDryRun => fs = fsBefore
    /\ hookOutcome \in {"canceled", "preview"} => fs = fsBefore /\ ~ApplyEntered

\* C37's case: without --yes, the prompt was answered yes and the command
\* has written two hooks and retired a sidecar.
C37_Witness ==
    /\ hpc = "done" /\ hookOutcome = "applied"
    /\ ~requestedYes /\ stdin = " yes " /\ fs # fsBefore
    /\ summary.WrittenHookCount = 2 /\ summary.RetiredCount = 1

\* The names a side has.
NamesOf(side) == DOMAIN side

\* The names that had different URLs on the two sides when the doctor began.
ConflictsBefore ==
    {name \in NamesOf(remotesBefore.sql) \cap NamesOf(remotesBefore.cli) :
        remotesBefore.sql[name] # remotesBefore.cli[name]}

\* The names that were on exactly one side when the doctor began.
OneSideBefore ==
    (NamesOf(remotesBefore.sql) \ NamesOf(remotesBefore.cli))
        \cup (NamesOf(remotesBefore.cli) \ NamesOf(remotesBefore.sql))

\* The URL the name had on the side it was on.
UrlBefore(name) ==
    IF name \in NamesOf(remotesBefore.sql) THEN remotesBefore.sql[name]
    ELSE remotesBefore.cli[name]

\* C38: through RemoteConsistency every remote a side had stays on it with
\* its URL, so a remote whose two URLs differ is neither removed nor
\* changed; the only remotes added are those that were on exactly one side,
\* to the other side with the same URL; when the function has returned nil,
\* each of those is on both sides unless its add gave a warning; and the
\* check names the fix only when no remote has two different URLs.
C38_FixSkipsConflicts ==
    /\ \A name \in NamesOf(remotesBefore.sql) :
          name \in NamesOf(remotes.sql) /\ remotes.sql[name] = remotesBefore.sql[name]
    /\ \A name \in NamesOf(remotesBefore.cli) :
          name \in NamesOf(remotes.cli) /\ remotes.cli[name] = remotesBefore.cli[name]
    /\ \A name \in (NamesOf(remotes.sql) \ NamesOf(remotesBefore.sql))
                        \cup (NamesOf(remotes.cli) \ NamesOf(remotesBefore.cli)) :
          /\ name \in OneSideBefore
          /\ remotes.sql[name] = UrlBefore(name) /\ remotes.cli[name] = UrlBefore(name)
    /\ (rmpc = "done" /\ fix.err = "nil") =>
          \A name \in OneSideBefore \ fix.warned :
              /\ name \in NamesOf(remotes.sql) /\ name \in NamesOf(remotes.cli)
              /\ remotes.sql[name] = UrlBefore(name) /\ remotes.cli[name] = UrlBefore(name)
    /\ check.Fix # "" => ConflictsBefore = {}

\* C38's case: origin had two different URLs and backup was on the CLI
\* side alone; the fix has returned, backup is on both sides and origin is
\* as it was.
C38_Witness ==
    /\ rmpc = "done" /\ fix.err = "nil"
    /\ "origin" \in ConflictsBefore
    /\ "backup" \in NamesOf(remotesBefore.cli) \ NamesOf(remotesBefore.sql)
    /\ "backup" \in NamesOf(remotes.sql)
    /\ check.Fix = "" /\ fix.fixed = 1
====
